---- MODULE Spec2Model ----
(***************************************************************************)
(* A model of the TDMS reader library (tdms/src/lib.rs and                 *)
(* tdms/src/tdms_datatypes.rs): TdmsFile::open walks the segments of a     *)
(* file and builds the index (all_objects, live_objects, segments);        *)
(* load_data, all_objects, data_objects and object_properties read it.     *)
(*                                                                         *)
(* The file is the input.  Its length is fixed in the initial state; the   *)
(* segment found at each address the walk visits is drawn when the walk    *)
(* gets there (the reader only ever moves to the address the previous      *)
(* header declares) and is remembered in the history variable file.        *)
(* Every read consumes the number of bytes the code reads, so an           *)
(* unexpected end of file strikes exactly where file_length puts it.       *)
(* Raw bytes are not interpreted: a value loaded from the raw block is     *)
(* identified with the address it was read from, the width read and the    *)
(* byte order used.                                                        *)
(*                                                                         *)
(* u32 codes (index_info_len, type codes) are 8-digit hex strings: they    *)
(* are only ever compared for equality.  u64 arithmetic is done modulo     *)
(* 2^U64Bits, a scaled-down word.                                          *)
(***************************************************************************)
EXTENDS Integers, Sequences, FiniteSets, TLC

VARIABLES
    file_length,           \* TdmsFile::open: fh.metadata().len()
    overflow_checks,       \* build profile: TRUE panics on integer overflow, FALSE wraps
    pc,                    \* "map_segments" | "open" | "failed" | "aborted"
    open_err,              \* the Err(..) open returned, "Ok" otherwise
    segments,              \* TdmsMap.segments
    all_objects,           \* TdmsMap.all_objects: IndexMap as a sequence of [key, value]
    live_objects,          \* TdmsMap.live_objects
    next_segment_address,  \* map_segments' local
    reader_pos,            \* position of the BufReader
    file,                  \* history: the segments read so far, [start, seg]
    result                 \* what the last API call returned

vars == <<file_length, overflow_checks, pc, open_err, segments, all_objects,
          live_objects, next_segment_address, reader_pos, file, result>>

index == <<segments, all_objects, live_objects>>

---------------------------------------------------------------------------
(* Bounds of the model *)

U64Bits == 16
NameLen == 1

(* Program constants *)

HEADER_LEN == 28
NO_RAW_DATA == "FFFFFFFF"
DATA_INDEX_MATCHES_PREVIOUS == "00000000"
FORMAT_CHANGING_SCALER == "69120000"
DIGITAL_LINE_SCALER == "69120000"

KTocMetaData == 2
KTocRawData == 8
KTocDAQmxRawData == 128
KTocInterleavedData == 32
KTocBigEndian == 64
KTocNewObjList == 4

READ_PAIR_BYTES == 40

U64_MOD == 2 ^ U64Bits
U64_MAX == U64_MOD - 1
ISIZE_MAX == (U64_MOD \div 2) - 1

None == <<>>
Some(v) == <<v>>

---------------------------------------------------------------------------
(* tdms_datatypes.rs *)

has_flag(flags, flag) == (flags \div flag) % 2 = 1

\* DataTypeRaw::from_u32: Some(type) or None (RawDataTypeNotFound)
from_u32(raw_id) ==
    CASE raw_id = "00000000" -> Some("Void")
      [] raw_id = "00000001" -> Some("I8")
      [] raw_id = "00000002" -> Some("I16")
      [] raw_id = "00000003" -> Some("I32")
      [] raw_id = "00000004" -> Some("I64")
      [] raw_id = "00000005" -> Some("U8")
      [] raw_id = "00000006" -> Some("U16")
      [] raw_id = "00000007" -> Some("U32")
      [] raw_id = "00000008" -> Some("U64")
      [] raw_id = "00000009" -> Some("SingleFloat")
      [] raw_id = "0000000A" -> Some("DoubleFloat")
      [] raw_id = "0000000B" -> Some("ExtendedFloat")
      [] raw_id = "00000019" -> Some("SingleFloatWithUnit")
      [] raw_id = "0000000C" -> Some("DoubleFloatWithUnit")
      [] raw_id = "0000000D" -> Some("ExtendedFloatWithUnit")
      [] raw_id = "00000020" -> Some("TdmsString")
      [] raw_id = "00000021" -> Some("Boolean")
      [] raw_id = "00000044" -> Some("TimeStamp")
      [] raw_id = "0000004F" -> Some("FixedPoint")
      [] raw_id = "0008000C" -> Some("ComplexSingleFloat")
      [] raw_id = "0010000D" -> Some("ComplexDoubleFloat")
      [] raw_id = "FFFFFFFF" -> Some("DAQmxRawData")
      [] OTHER -> None

\* DataTypeRaw::size: Some(bytes), or None for Err(StringSizeNotDefined)
size(t) ==
    CASE t = "Void" -> Some(0)
      [] t \in {"I8", "U8", "Boolean"} -> Some(1)
      [] t \in {"I16", "U16"} -> Some(2)
      [] t \in {"I32", "U32", "SingleFloat", "SingleFloatWithUnit", "FixedPoint"} -> Some(4)
      [] t \in {"I64", "U64", "DoubleFloat", "DoubleFloatWithUnit", "ComplexSingleFloat"} -> Some(8)
      [] t \in {"ExtendedFloat", "ExtendedFloatWithUnit"} -> Some(10)
      [] t = "TdmsString" -> None
      [] t \in {"TimeStamp", "ComplexDoubleFloat"} -> Some(16)
      [] t = "DAQmxRawData" -> Some(0)

---------------------------------------------------------------------------
(* The reader.  A parse state st carries the reader position, the error    *)
(* raised so far ("Ok" when none) and the parts of the TdmsMap the parse   *)
(* updates in place.                                                       *)

\* read_exact of n bytes: past the end of the file it fails with UnexpectedEof,
\* having consumed what was left
read(st, n) ==
    IF st.err # "Ok" THEN st
    ELSE IF st.pos + n > file_length
         THEN [st EXCEPT !.err = "UnexpectedEof",
                         !.pos = IF st.pos < file_length THEN file_length ELSE st.pos]
         ELSE [st EXCEPT !.pos = st.pos + n]

fail(st, e) == IF st.err # "Ok" THEN st ELSE [st EXCEPT !.err = e]

\* The object path whose bytes are not UTF-8
InvalidUtf8Path == "~"

\* String::from_utf8 accepts the bytes of the path
from_utf8(path) == path # InvalidUtf8Path

\* read_string: a 4-byte length, the bytes, String::from_utf8
read_string(st, utf8) ==
    LET s == read(read(st, 4), NameLen)
    IN IF utf8 THEN s ELSE fail(s, "FromUtf8")

\* The bytes read_datatype consumes for a property value of type t; None where
\* it runs into unimplemented!()
property_bytes(t) ==
    CASE t = "TdmsString" -> Some(4 + NameLen)
      [] t \in {"U8", "I8", "Boolean"} -> Some(1)
      [] t \in {"U16", "I16"} -> Some(2)
      [] t \in {"U32", "I32", "SingleFloat"} -> Some(4)
      [] t \in {"U64", "I64", "DoubleFloat", "DAQmxRawData"} -> Some(8)
      [] t = "TimeStamp" -> Some(16)
      [] OTHER -> None

---------------------------------------------------------------------------
(* IndexMap *)

keys(m) == [i \in 1..Len(m) |-> m[i].key]
contains_key(m, k) == \E i \in 1..Len(m) : m[i].key = k
get_index_of(m, k) == CHOOSE i \in 1..Len(m) : m[i].key = k
get(m, k) == m[get_index_of(m, k)].value
\* An insert that moves an overwritten key to the end
insert_last(m, k, v) ==
    Append(SelectSeq(m, LAMBDA e : e.key # k), [key |-> k, value |-> v])

\* IndexMap::insert: an existing key keeps its position and gets the new value
insert(m, k, v) ==
    IF contains_key(m, k)
    THEN [m EXCEPT ![get_index_of(m, k)].value = v]
    ELSE Append(m, [key |-> k, value |-> v])

contains(s, x) == \E i \in 1..Len(s) : s[i] = x

---------------------------------------------------------------------------
(* u64 arithmetic *)

overflows(v) == v < 0 \/ v > U64_MAX
wrap(v) == ((v % U64_MOD) + U64_MOD) % U64_MOD

---------------------------------------------------------------------------
(* lib.rs: TdmsObject.  Every step takes the parse state and returns it     *)
(* unchanged once an error has been raised, as the ? operator does.         *)

DefaultTdmsObject ==
    [object_path |-> "", index_info_len |-> "00000000", raw_data_type |-> None,
     raw_data_dim |-> None, no_raw_vals |-> None, no_bytes |-> 0,
     no_properties |-> 0, daqmx_info |-> None, properties |-> <<>>]

DefaultObjectMap ==
    [last_object |-> DefaultTdmsObject, read_map |-> <<>>, total_bytes |-> 0,
     total_values |-> 0, bigendian |-> FALSE]

\* An assignment to a field of the last_object of the i-th entry
set_last_object(st, i, field, v) ==
    IF st.err # "Ok" THEN st
    ELSE [st EXCEPT !.all_objects[i].value.last_object[field] = v]

\* self.properties.insert(property.prop_name.clone(), property)
insert_property(st, i, p, t) ==
    IF st.err # "Ok" THEN st
    ELSE [st EXCEPT !.all_objects[i].value.last_object.properties =
             insert(@, p.prop_name,
                    [prop_name |-> p.prop_name, data_type |-> t, property |-> p.property])]

\* ObjectProperty::read_property after the name and the type code t were read,
\* and the insertion of the property read
read_property(st, i, p, t) ==
    IF st.err # "Ok" THEN st
    ELSE IF t = None THEN fail(st, "RawDataTypeNotFound")
    ELSE IF property_bytes(t[1]) = None THEN fail(st, "panic")
    ELSE insert_property(read(st, property_bytes(t[1])[1]), i, p, t[1])

\* The loop of update_properties from the k-th property on
RECURSIVE read_properties(_, _, _, _)
read_properties(st, i, props, k) ==
    IF st.err # "Ok" \/ k > Len(props) THEN st
    ELSE read_properties(
             read_property(read(read_string(st, TRUE), 4), i, props[k],
                           from_u32(props[k].data_type)),
             i, props, k + 1)

update_properties(st, i, props) ==
    read_properties(set_last_object(read(st, 4), i, "no_properties", Len(props)),
                    i, props, 1)

\* other.size()? * no_vals * dim as u64
computed_bytes(o, t) == size(t)[1] * o.no_vals * o.dim

\* The assignments of read_sizeinfo, the type being t (not a string)
store_sizeinfo(st, i, o, t) ==
    IF st.err # "Ok" THEN st
    ELSE IF overflow_checks
            /\ (overflows(size(t)[1] * o.no_vals) \/ overflows(computed_bytes(o, t)))
         THEN fail(st, "panic")
    ELSE [st EXCEPT !.all_objects[i].value.last_object =
             [@ EXCEPT !.no_bytes = wrap(wrap(size(t)[1] * o.no_vals) * o.dim),
                       !.raw_data_type = Some(t),
                       !.raw_data_dim = Some(o.dim),
                       !.no_raw_vals = Some(o.no_vals)]]

\* The assignments of read_sizeinfo for a string channel: no_bytes is read
store_string_sizeinfo(st, i, o) ==
    IF st.err # "Ok" THEN st
    ELSE [st EXCEPT !.all_objects[i].value.last_object =
             [@ EXCEPT !.no_bytes = o.str_bytes,
                       !.raw_data_type = Some("TdmsString"),
                       !.raw_data_dim = Some(o.dim),
                       !.no_raw_vals = Some(o.no_vals)]]

\* read_sizeinfo after the type code t was read: dim, no_vals and the size
sizeinfo(st, i, o, t) ==
    IF st.err # "Ok" THEN st
    ELSE IF t = None THEN fail(st, "RawDataTypeNotFound")
    ELSE IF t[1] = "TdmsString"
         THEN store_string_sizeinfo(read(read(read(st, 4), 8), 8), i, o)
    ELSE store_sizeinfo(read(read(st, 4), 8), i, o, t[1])

read_sizeinfo(st, i, o) == sizeinfo(read(st, 4), i, o, from_u32(o.raw_type))

\* DataTypeRaw::from_u32(..)? on the type code of a scaler
scaler_type(st, code) ==
    IF from_u32(code) = None THEN fail(st, "RawDataTypeNotFound") ELSE st

\* DAQMxScaler::new for the scalers from the k-th on: five u32, the first a type code
RECURSIVE read_scalers(_, _, _)
read_scalers(st, scalers, k) ==
    IF st.err # "Ok" \/ k > Len(scalers) THEN st
    ELSE read_scalers(read(scaler_type(read(st, 4), scalers[k]), 16), scalers, k + 1)

read_daqmxinfo(st, i, o) ==
    set_last_object(
        read(read(read_scalers(read(st, 4), o.daqmx.scalers, 1), 4),
             4 * Len(o.daqmx.widthvec)),
        i, "daqmx_info", Some(o.daqmx))

\* all_objects.entry(path).or_default()
entry(st, path) ==
    IF contains_key(st.all_objects, path) THEN st
    ELSE [st EXCEPT !.all_objects = Append(@, [key |-> path, value |-> DefaultObjectMap])]

\* The position of the entry of path in all_objects, once it is there
position(st, path) ==
    IF contains_key(st.all_objects, path) THEN get_index_of(st.all_objects, path)
    ELSE Len(st.all_objects) + 1

\* The branches of update_read_object on index_info_len, properties apart
read_index_info(st, i, o, prior_object) ==
    IF st.err # "Ok" THEN st
    ELSE IF o.index_info_len = NO_RAW_DATA THEN st
    ELSE IF o.index_info_len = DATA_INDEX_MATCHES_PREVIOUS
         THEN IF ~prior_object THEN fail(st, "NoPreviousObject") ELSE st
    ELSE IF o.index_info_len = FORMAT_CHANGING_SCALER
         THEN read_daqmxinfo(read_sizeinfo(st, i, o), i, o)
    ELSE IF o.index_info_len = DIGITAL_LINE_SCALER
         THEN read_daqmxinfo(read_sizeinfo(st, i, o), i, o)
    ELSE read_sizeinfo(st, i, o)

\* The property list update_properties finds where update_read_object calls
\* it: the record's own, unless the bytes there are a DAQmx descriptor that the
\* branch taken left unread, whose empty scaler vector reads as a count of zero
props_found(o) ==
    IF "daqmx" \in DOMAIN o
       /\ o.index_info_len \notin {FORMAT_CHANGING_SCALER, DIGITAL_LINE_SCALER}
    THEN <<>>
    ELSE o.props

\* TdmsObject::update_read_object on the object record o; what it returns,
\* (no_bytes, raw_data_type), is read from the entry it leaves
update_read_object(st, o) ==
    IF st.err # "Ok" THEN st
    ELSE update_properties(
             read_index_info(
                 set_last_object(
                     read(set_last_object(entry(st, o.path), position(st, o.path),
                                          "object_path", o.path), 4),
                     position(st, o.path), "index_info_len", o.index_info_len),
                 position(st, o.path), o, contains_key(st.all_objects, o.path)),
             position(st, o.path), props_found(o))

---------------------------------------------------------------------------
(* lib.rs: TdmsMap *)

\* The size of one value of the object's type, as read_segment_metadata and
\* update_indexes compute it
type_size(object) ==
    IF object.raw_data_type = None THEN 0
    ELSE IF object.raw_data_type[1] = "TdmsString" THEN object.no_bytes
    ELSE size(object.raw_data_type[1])[1]

\* chunk_size += no_bytes; channels_size += the type's size
add_sizes(st, object) ==
    IF overflow_checks
       /\ (overflows(st.chunk_size + object.no_bytes)
           \/ overflows(st.channels_size + type_size(object)))
    THEN fail(st, "panic")
    ELSE [st EXCEPT !.chunk_size = wrap(@ + object.no_bytes),
                    !.channels_size = wrap(@ + type_size(object))]

\* A push_live that pushes the path whether it is live or not
push_live_always(st, path) ==
    IF st.err # "Ok" THEN st
    ELSE [st EXCEPT !.live_objects = Append(@, path)]

\* A push_live that compares the path with the last live path only
push_live_unless_last(st, path) ==
    IF st.err # "Ok"
       \/ (st.live_objects # <<>> /\ st.live_objects[Len(st.live_objects)] = path)
    THEN st
    ELSE [st EXCEPT !.live_objects = Append(@, path)]

\* if !self.live_objects.contains(&path) { self.live_objects.push(path.clone()) }
push_live(st, path) ==
    IF st.err # "Ok" \/ contains(st.live_objects, path) THEN st
    ELSE [st EXCEPT !.live_objects = Append(@, path)]

\* The body of the loop of read_segment_metadata after update_read_object
add_object(st, path) ==
    IF st.err # "Ok" THEN st
    ELSE push_live(add_sizes(st, get(st.all_objects, path).last_object), path)

\* The loop over the objects of a segment in read_segment_metadata, from the
\* k-th object on
RECURSIVE read_objects(_, _, _)
read_objects(st, objs, k) ==
    IF st.err # "Ok" \/ k > Len(objs) THEN st
    ELSE read_objects(
             add_object(update_read_object(read_string(st, from_utf8(objs[k].path)),
                                           objs[k]),
                        objs[k].path),
             objs, k + 1)

\* The ReadPairs update_indexes pushes for one object: chunk i - 1 is the i-th
ReadPairs(segment, chunk_size, channels_size, relative_position, object) ==
    [i \in 1..segment.no_chunks |->
        [start_index |-> wrap(segment.start_index + HEADER_LEN + segment.raw_data_offset
                              + (i - 1) * chunk_size + relative_position),
         no_values |-> object.no_raw_vals[1],
         interleaved |-> has_flag(segment.toc_mask, KTocInterleavedData),
         stride |-> Some(wrap(channels_size - type_size(object)))]]

\* The arithmetic of the ReadPair loop overflows
pairs_overflow(segment, chunk_size, channels_size, relative_position, object) ==
    \/ overflows(channels_size - type_size(object))
    \/ overflows(segment.start_index + HEADER_LEN + segment.raw_data_offset
                 + (segment.no_chunks - 1) * chunk_size + relative_position)

\* An update_index that counts the values of one chunk per segment
update_index_once(st, segment, chunk_size, channels_size, relative_position, i, object) ==
    IF ~(object.no_bytes > 0 /\ segment.no_chunks > 0)
    THEN [st EXCEPT !.all_objects[i].value.bigendian =
             has_flag(segment.toc_mask, KTocBigEndian)]
    ELSE [st EXCEPT !.all_objects[i].value =
             [@ EXCEPT !.read_map = @ \o ReadPairs(segment, chunk_size, channels_size,
                                                   relative_position, object),
                       !.total_bytes = wrap(@ + segment.no_chunks * object.no_bytes),
                       !.total_values = wrap(@ + object.no_raw_vals[1]),
                       !.bigendian = has_flag(segment.toc_mask, KTocBigEndian)]]

\* The body of the loop of update_indexes on the i-th entry of all_objects
update_index(st, segment, chunk_size, channels_size, relative_position, i, object) ==
    IF ~(object.no_bytes > 0 /\ segment.no_chunks > 0)
    THEN [st EXCEPT !.all_objects[i].value.bigendian =
             has_flag(segment.toc_mask, KTocBigEndian)]
    ELSE IF segment.no_chunks * READ_PAIR_BYTES > ISIZE_MAX THEN fail(st, "abort")
    ELSE IF overflow_checks
            /\ pairs_overflow(segment, chunk_size, channels_size, relative_position, object)
         THEN fail(st, "panic")
    ELSE [st EXCEPT !.all_objects[i].value =
             [@ EXCEPT !.read_map = @ \o ReadPairs(segment, chunk_size, channels_size,
                                                   relative_position, object),
                       !.total_bytes = wrap(@ + segment.no_chunks * object.no_bytes),
                       !.total_values = wrap(@ + segment.no_chunks * object.no_raw_vals[1]),
                       !.bigendian = has_flag(segment.toc_mask, KTocBigEndian)]]

\* An advance that takes every segment for contiguous
advance_contiguous(segment, relative_position, object) ==
    wrap(relative_position + object.no_bytes)

\* relative_position += type_size or no_bytes
advance(segment, relative_position, object) ==
    wrap(relative_position
         + (IF has_flag(segment.toc_mask, KTocInterleavedData)
            THEN type_size(object) ELSE object.no_bytes))

\* TdmsMap::update_indexes, from the k-th live object on
RECURSIVE update_indexes(_, _, _, _, _, _)
update_indexes(st, segment, chunk_size, channels_size, relative_position, k) ==
    IF st.err # "Ok" \/ k > Len(st.live_objects) THEN st
    ELSE IF ~contains_key(st.all_objects, st.live_objects[k]) THEN fail(st, "panic")
    ELSE update_indexes(
             update_index(st, segment, chunk_size, channels_size, relative_position,
                          get_index_of(st.all_objects, st.live_objects[k]),
                          get(st.all_objects, st.live_objects[k]).last_object),
             segment, chunk_size, channels_size,
             advance(segment, relative_position,
                     get(st.all_objects, st.live_objects[k]).last_object),
             k + 1)

\* TdmsSegment::new with the fields read_segment and read_segment_metadata
\* assign: chunk_size and channels_size are never assigned
TdmsSegment(seg, start_index, chunk_size) ==
    [toc_mask |-> seg.toc_mask,
     next_seg_offset |-> seg.next_seg_offset,
     raw_data_offset |-> seg.raw_data_offset,
     start_index |-> start_index,
     no_chunks |-> IF chunk_size > 0
                   THEN wrap(seg.next_seg_offset - seg.raw_data_offset) \div chunk_size
                   ELSE 0,
     chunk_size |-> 0,
     channels_size |-> 0]

\* A begin_metadata that drops the indexed objects with the live list
begin_metadata_dropping(st, seg) ==
    IF st.err # "Ok" THEN st
    ELSE IF ~has_flag(seg.toc_mask, KTocNewObjList)
         THEN IF segments = <<>> THEN fail(st, "panic")
              ELSE [st EXCEPT !.chunk_size = segments[Len(segments)].chunk_size,
                              !.channels_size = segments[Len(segments)].chunk_size]
    ELSE [st EXCEPT !.live_objects = <<>>, !.all_objects = <<>>]

\* The lead-in after file_tag and toc_mask, and the object count: version_no,
\* next_seg_offset, raw_data_offset; no_objects; then the sizes carried over
\* or the live list cleared
begin_metadata(st, seg) ==
    IF st.err # "Ok" THEN st
    ELSE IF ~has_flag(seg.toc_mask, KTocNewObjList)
         THEN IF segments = <<>> THEN fail(st, "panic")
              ELSE [st EXCEPT !.chunk_size = segments[Len(segments)].chunk_size,
                              !.channels_size = segments[Len(segments)].chunk_size]
    ELSE [st EXCEPT !.live_objects = <<>>]

\* The end of read_segment_metadata: no_chunks and update_indexes
end_metadata(st, seg, start_index) ==
    IF st.err # "Ok" THEN st
    ELSE IF st.chunk_size > 0 /\ overflow_checks
            /\ overflows(seg.next_seg_offset - seg.raw_data_offset)
         THEN fail(st, "panic")
    ELSE update_indexes(st, TdmsSegment(seg, start_index, st.chunk_size),
                        st.chunk_size, st.channels_size, 0, 1)

\* TdmsMap::read_segment with read_segment_metadata, on the segment seg found at
\* start_index: the parse state it leaves
read_segment(seg, start_index) ==
    end_metadata(
        read_objects(
            begin_metadata(
                read(read(read(read(read(read(
                    [pos |-> start_index, err |-> "Ok", all_objects |-> all_objects,
                     live_objects |-> live_objects, chunk_size |-> 0, channels_size |-> 0],
                    4), 4), 4), 8), 8), 4),
                seg),
            seg.objs, 1),
        seg, start_index)

NoResult == [op |-> "none", path |-> "", kind |-> "none", value |-> <<>>]

\* The file holds one thing at each address: a segment read before is read again
Consistent(seg) ==
    \A k \in 1..Len(file) : file[k].start = next_segment_address => file[k].seg = seg

\* segment.next_seg_offset + next_segment_address + HEADER_LEN
next_address(seg) == seg.next_seg_offset + next_segment_address + HEADER_LEN

\* A ReadSegment that sends an unexpected end of file on like any other error
ReadSegment_propagating(seg) ==
    /\ pc = "map_segments"
    /\ next_segment_address < file_length
    /\ Consistent(seg)
    /\ \E st \in {read_segment(seg, next_segment_address)} :
          /\ reader_pos' = st.pos
          /\ file' = Append(file, [start |-> next_segment_address, seg |-> seg])
          /\ all_objects' = st.all_objects
          /\ live_objects' = st.live_objects
          /\ CASE st.err = "Ok" /\ ~(overflows(next_address(seg)) /\ overflow_checks) ->
                    /\ next_segment_address' = wrap(next_address(seg))
                    /\ segments' = Append(segments, TdmsSegment(seg, next_segment_address,
                                                                st.chunk_size))
                    /\ UNCHANGED <<pc, open_err>>
               [] st.err = "Ok" /\ overflows(next_address(seg)) /\ overflow_checks ->
                    /\ pc' = "aborted"
                    /\ UNCHANGED <<next_segment_address, segments, open_err>>
               [] st.err = "UnexpectedEof" ->
                    /\ pc' = "failed"
                    /\ open_err' = "UnexpectedEof"
                    /\ UNCHANGED <<next_segment_address, segments>>
               [] st.err \in {"panic", "abort"} ->
                    /\ pc' = "aborted"
                    /\ UNCHANGED <<next_segment_address, segments, open_err>>
               [] OTHER ->
                    /\ pc' = "failed"
                    /\ open_err' = st.err
                    /\ UNCHANGED <<next_segment_address, segments>>
    /\ UNCHANGED <<file_length, overflow_checks, result>>

\* One iteration of the loop of TdmsMap::map_segments, seg being what the file
\* holds at next_segment_address
ReadSegment(seg) ==
    /\ pc = "map_segments"
    /\ next_segment_address < file_length
    /\ Consistent(seg)
    /\ \E st \in {read_segment(seg, next_segment_address)} :
          /\ reader_pos' = st.pos
          /\ file' = Append(file, [start |-> next_segment_address, seg |-> seg])
          /\ all_objects' = st.all_objects
          /\ live_objects' = st.live_objects
          /\ CASE st.err = "Ok" /\ ~(overflows(next_address(seg)) /\ overflow_checks) ->
                    /\ next_segment_address' = wrap(next_address(seg))
                    /\ segments' = Append(segments, TdmsSegment(seg, next_segment_address,
                                                                st.chunk_size))
                    /\ UNCHANGED <<pc, open_err>>
               [] st.err = "Ok" /\ overflows(next_address(seg)) /\ overflow_checks ->
                    /\ pc' = "aborted"
                    /\ UNCHANGED <<next_segment_address, segments, open_err>>
               [] st.err = "UnexpectedEof" ->
                    /\ pc' = "open"
                    /\ UNCHANGED <<next_segment_address, segments, open_err>>
               [] st.err \in {"panic", "abort"} ->
                    /\ pc' = "aborted"
                    /\ UNCHANGED <<next_segment_address, segments, open_err>>
               [] OTHER ->
                    /\ pc' = "failed"
                    /\ open_err' = st.err
                    /\ UNCHANGED <<next_segment_address, segments>>
    /\ UNCHANGED <<file_length, overflow_checks, result>>

\* A read of read_segment fails with an I/O error other than an unexpected end
\* of file: map_segments sends it on and open returns it
ReadFails ==
    /\ pc = "map_segments"
    /\ next_segment_address < file_length
    /\ pc' = "failed"
    /\ open_err' = "Io"
    /\ UNCHANGED <<file_length, overflow_checks, segments, all_objects, live_objects,
                   next_segment_address, reader_pos, file, result>>

\* A map_segments that reads the lead-in before it tests the address: on an
\* empty file the read fails and the error is returned
MapSegmentsDone_reading ==
    /\ pc = "map_segments"
    /\ ~(next_segment_address < file_length)
    /\ pc' = IF file_length = 0 THEN "failed" ELSE "open"
    /\ open_err' = IF file_length = 0 THEN "UnexpectedEof" ELSE open_err
    /\ UNCHANGED <<file_length, overflow_checks, segments, all_objects,
                   live_objects, next_segment_address, reader_pos, file, result>>

\* map_segments leaves its loop and open returns the TdmsFile
MapSegmentsDone ==
    /\ pc = "map_segments"
    /\ ~(next_segment_address < file_length)
    /\ pc' = "open"
    /\ UNCHANGED <<file_length, overflow_checks, open_err, segments, all_objects,
                   live_objects, next_segment_address, reader_pos, file, result>>

---------------------------------------------------------------------------
(* tdms_datatypes.rs: the loader *)

DefaultValue == [addr |-> -1, width |-> 0, bigendian |-> FALSE]

\* pair.stride.unwrap() as i64
as_i64(v) == IF v > ISIZE_MAX THEN v - U64_MOD ELSE v

\* The interleaved loop of read_into_vec from value j on: one element into
\* datavec[i + j], then a relative seek by the stride.  ld is [pos, err, datavec]
RECURSIVE read_interleaved(_, _, _, _, _, _)
read_interleaved(ld, pair, i, j, width, bigendian) ==
    IF ld.err # "Ok" \/ j >= pair.no_values THEN ld
    ELSE LET l1 == IF i + j + 1 > Len(ld.datavec) THEN [ld EXCEPT !.err = "panic"]
                   ELSE IF ld.pos + width > file_length
                        THEN [ld EXCEPT !.err = "UnexpectedEof",
                                        !.pos = IF ld.pos < file_length
                                                THEN file_length ELSE ld.pos]
                   ELSE [ld EXCEPT !.datavec[i + j + 1] =
                                       [addr |-> ld.pos, width |-> width,
                                        bigendian |-> bigendian],
                                   !.pos = ld.pos + width]
             target == l1.pos + as_i64(pair.stride[1])
             l2 == IF l1.err # "Ok" THEN l1
                   ELSE IF target < 0 THEN [l1 EXCEPT !.err = "InvalidInput"]
                   ELSE [l1 EXCEPT !.pos = target]
         IN read_interleaved(l2, pair, i, j + 1, width, bigendian)

\* The contiguous branch of read_into_vec: no_values elements into
\* datavec[i .. i + no_values]
read_contiguous(ld, pair, i, width, bigendian) ==
    IF i + pair.no_values > Len(ld.datavec) THEN [ld EXCEPT !.err = "panic"]
    ELSE IF ld.pos + pair.no_values * width > file_length
         THEN [ld EXCEPT !.err = "UnexpectedEof",
                         !.pos = IF ld.pos < file_length THEN file_length ELSE ld.pos]
    ELSE [ld EXCEPT !.datavec =
                        [n \in 1..Len(ld.datavec) |->
                            IF n > i /\ n <= i + pair.no_values
                            THEN [addr |-> ld.pos + (n - i - 1) * width, width |-> width,
                                  bigendian |-> bigendian]
                            ELSE ld.datavec[n]],
                    !.pos = ld.pos + pair.no_values * width]

\* A seek that leaves the reader where the last read left it
seek_start_nowhere(ld, pair) == ld

\* reader.seek(SeekFrom::Start(pair.start_index))
seek_start(ld, pair) == [ld EXCEPT !.pos = pair.start_index]

\* read_into_vec from the k-th read pair on, i being the write cursor
RECURSIVE read_into_vec(_, _, _, _, _, _)
read_into_vec(ld, read_pairs, k, i, width, bigendian) ==
    IF ld.err # "Ok" \/ k > Len(read_pairs) THEN ld
    ELSE LET pair == read_pairs[k]
             l0 == seek_start(ld, pair)
             l1 == IF pair.interleaved
                   THEN read_interleaved(l0, pair, i, 0, width, bigendian)
                   ELSE read_contiguous(l0, pair, i, width, bigendian)
         IN read_into_vec(l1, read_pairs, k + 1, i + pair.no_values, width, bigendian)

\* The types read_data_vector dispatches to read_into_vec (strings apart)
LoadableTypes ==
    {"I8", "I16", "I32", "I64", "U8", "U16", "U32", "U64", "SingleFloat",
     "DoubleFloat", "Boolean", "TimeStamp"}

\* read_data_vector: [kind, value, pos]; kind is "Ok", "Err" or "panic"
read_data_vector(object_map, bigendian, pos) ==
    IF object_map.last_object.raw_data_type = None
    THEN [kind |-> "Err", value |-> "ObjectHasNoRawData", pos |-> pos]
    ELSE LET rawtype == object_map.last_object.raw_data_type[1]
             ld == read_into_vec(
                       [pos |-> pos, err |-> "Ok",
                        datavec |-> [n \in 1..object_map.total_values |-> DefaultValue]],
                       object_map.read_map, 1, 0, size(rawtype)[1], bigendian)
         IN CASE rawtype = "Void" ->
                     [kind |-> "Ok", value |-> [type |-> "Void", data |-> <<>>], pos |-> pos]
              [] rawtype \in LoadableTypes ->
                     IF ld.err = "Ok"
                     THEN [kind |-> "Ok", value |-> [type |-> rawtype, data |-> ld.datavec],
                           pos |-> ld.pos]
                     ELSE IF ld.err = "panic"
                          THEN [kind |-> "panic", value |-> "slice index", pos |-> ld.pos]
                          ELSE [kind |-> "Err", value |-> ld.err, pos |-> ld.pos]
              [] OTHER ->
                     [kind |-> "panic", value |-> "unimplemented", pos |-> pos]

---------------------------------------------------------------------------
(* lib.rs: TdmsFile *)

\* A load_data that answers an absent path with an empty array
load_data_or_default(path) ==
    IF ~contains_key(all_objects, path)
    THEN [kind |-> "Ok", value |-> [type |-> "Void", data |-> <<>>], pos |-> reader_pos]
    ELSE read_data_vector(get(all_objects, path), get(all_objects, path).bigendian,
                          reader_pos)

\* TdmsFile::load_data
load_data(path) ==
    IF ~contains_key(all_objects, path)
    THEN [kind |-> "Err", value |-> "ChannelNotFound", pos |-> reader_pos]
    ELSE LET object_map == get(all_objects, path)
         IN read_data_vector(object_map, object_map.bigendian, reader_pos)

\* A load_data that hands the read plan over to the loader and leaves none
LoadData_draining(path) ==
    /\ pc = "open"
    /\ LET r == load_data(path)
       IN /\ result' = [op |-> "load_data", path |-> path, kind |-> r.kind,
                        value |-> r.value]
          /\ reader_pos' = r.pos
          /\ pc' = IF r.kind = "panic" THEN "aborted" ELSE pc
    /\ all_objects' = [n \in 1..Len(all_objects) |->
                          IF all_objects[n].key = path
                          THEN [all_objects[n] EXCEPT !.value.read_map = <<>>]
                          ELSE all_objects[n]]
    /\ UNCHANGED <<file_length, overflow_checks, open_err, segments,
                   live_objects, next_segment_address, file>>

LoadData(path) ==
    /\ pc = "open"
    /\ LET r == load_data(path)
       IN /\ result' = [op |-> "load_data", path |-> path, kind |-> r.kind,
                        value |-> r.value]
          /\ reader_pos' = r.pos
          /\ pc' = IF r.kind = "panic" THEN "aborted" ELSE pc
    /\ UNCHANGED <<file_length, overflow_checks, open_err, segments, all_objects,
                   live_objects, next_segment_address, file>>

\* TdmsFile::all_objects
AllObjects ==
    /\ pc = "open"
    /\ result' = [op |-> "all_objects", path |-> "", kind |-> "Ok",
                  value |-> keys(all_objects)]
    /\ UNCHANGED <<file_length, overflow_checks, pc, open_err, segments, all_objects,
                   live_objects, next_segment_address, reader_pos, file>>

\* A data_objects that lists every object with a raw data type
DataObjects_typed ==
    /\ pc = "open"
    /\ result' = [op |-> "data_objects", path |-> "", kind |-> "Ok",
                  value |-> keys(SelectSeq(all_objects,
                                 LAMBDA e : e.value.last_object.raw_data_type # None))]
    /\ UNCHANGED <<file_length, overflow_checks, pc, open_err, segments, all_objects,
                   live_objects, next_segment_address, reader_pos, file>>

\* TdmsFile::data_objects
DataObjects ==
    /\ pc = "open"
    /\ result' = [op |-> "data_objects", path |-> "", kind |-> "Ok",
                  value |-> keys(SelectSeq(all_objects,
                                 LAMBDA e : e.value.last_object.no_bytes > 0))]
    /\ UNCHANGED <<file_length, overflow_checks, pc, open_err, segments, all_objects,
                   live_objects, next_segment_address, reader_pos, file>>

\* TdmsFile::object_properties
ObjectProperties(path) ==
    /\ pc = "open"
    /\ result' = IF ~contains_key(all_objects, path)
                 THEN [op |-> "object_properties", path |-> path, kind |-> "Err",
                       value |-> "ChannelNotFound"]
                 ELSE [op |-> "object_properties", path |-> path, kind |-> "Ok",
                       value |-> get(all_objects, path).last_object]
    /\ UNCHANGED <<file_length, overflow_checks, pc, open_err, segments, all_objects,
                   live_objects, next_segment_address, reader_pos, file>>

---------------------------------------------------------------------------
(* The input: object records and segments as the file encodes them.  Every *)
(* segment of the input families is SegPitch bytes long: its raw block is  *)
(* its last bytes, and unused bytes may separate it from the metadata.     *)

I16 == "00000002"
I32 == "00000003"
VOID == "00000000"
EXTENDED_FLOAT == "0000000B"
FIXED_LEN == "00000014"

NoRaw(path, props) ==
    [path |-> path, index_info_len |-> NO_RAW_DATA, raw_type |-> VOID, dim |-> 0,
     no_vals |-> 0, props |-> props]
Prev(path, props) ==
    [path |-> path, index_info_len |-> DATA_INDEX_MATCHES_PREVIOUS, raw_type |-> VOID,
     dim |-> 0, no_vals |-> 0, props |-> props]
Fresh(path, raw_type, no_vals, props) ==
    [path |-> path, index_info_len |-> FIXED_LEN, raw_type |-> raw_type, dim |-> 1,
     no_vals |-> no_vals, props |-> props]

\* A property record: a name, the type code I32 and the value
Prop(name, value) == [prop_name |-> name, data_type |-> I32, property |-> value]

has_sizeinfo(o) == o.index_info_len \notin {NO_RAW_DATA, DATA_INDEX_MATCHES_PREVIOUS}

RECURSIVE PropsBytes(_)
PropsBytes(props) ==
    IF props = <<>> THEN 0
    ELSE (4 + NameLen) + 4 + property_bytes(from_u32(Head(props).data_type)[1])[1]
         + PropsBytes(Tail(props))

\* The bytes of the DAQmx descriptor of a record that has one: the count and
\* the five u32 of each scaler, the count and the u32 of each data width
DaqmxBytes(o) ==
    IF "daqmx" \in DOMAIN o
    THEN 4 + 20 * Len(o.daqmx.scalers) + 4 + 4 * Len(o.daqmx.widthvec)
    ELSE 0

\* The bytes of one object record
ObjectBytes(o) ==
    (4 + NameLen) + 4 + (IF has_sizeinfo(o) THEN 16 ELSE 0) + DaqmxBytes(o)
    + 4 + PropsBytes(o.props)

RECURSIVE ObjectsBytes(_)
ObjectsBytes(objs) ==
    IF objs = <<>> THEN 0 ELSE ObjectBytes(Head(objs)) + ObjectsBytes(Tail(objs))

\* The bytes of a segment's metadata block: the object count and the records
MetaBytes(objs) == 4 + ObjectsBytes(objs)

SegPitch == 100
MaxSegs == 2
RawBytes == 4

\* A segment of SegPitch bytes whose raw block is its last raw bytes
Segment(toc_mask, objs, raw) ==
    [toc_mask |-> toc_mask,
     next_seg_offset |-> SegPitch - HEADER_LEN,
     raw_data_offset |-> SegPitch - HEADER_LEN - raw,
     objs |-> objs]

\* A corrupted tail: the next-segment offset is all ones
TailSegment(toc_mask, objs) ==
    [toc_mask |-> toc_mask, next_seg_offset |-> U64_MAX,
     raw_data_offset |-> MetaBytes(objs), objs |-> objs]

\* The metadata of a segment ends before its raw block starts
WellLaidOut(seg) == MetaBytes(seg.objs) <= seg.raw_data_offset

Paths == {"a", "b"}
MissingPath == "z"

NewList == KTocMetaData + KTocRawData + KTocNewObjList
Additive == KTocMetaData + KTocRawData

ObjectLists ==
    {<<Fresh("a", I16, 1, <<>>)>>, <<Fresh("b", I16, 1, <<>>)>>,
     <<Fresh("a", I16, 1, <<>>), Fresh("b", I16, 1, <<>>)>>,
     <<Fresh("b", I16, 1, <<>>), Fresh("a", I16, 1, <<>>)>>,
     <<Prev("a", <<>>)>>, <<NoRaw("a", <<>>)>>, <<NoRaw("b", <<>>)>>,
     <<Fresh("a", I16, 2, <<>>)>>, <<Fresh("a", VOID, 1, <<>>)>>,
     <<Fresh("a", EXTENDED_FLOAT, 1, <<>>)>>}

Segments ==
    {seg \in {Segment(t, objs, RawBytes) : t \in {NewList, Additive}, objs \in ObjectLists} :
        WellLaidOut(seg)}

FileLengths == {k * SegPitch : k \in 0..MaxSegs}

---------------------------------------------------------------------------

Start(lengths) ==
    /\ file_length \in lengths
    /\ overflow_checks \in BOOLEAN
    /\ pc = "map_segments"
    /\ open_err = "Ok"
    /\ segments = <<>>
    /\ all_objects = <<>>
    /\ live_objects = <<>>
    /\ next_segment_address = 0
    /\ reader_pos = 0
    /\ file = <<>>
    /\ result = NoResult

\* The calls on an open file
Calls ==
    \/ \E path \in Paths \cup {MissingPath} : LoadData(path)
    \/ AllObjects
    \/ DataObjects
    \/ \E path \in Paths \cup {MissingPath} : ObjectProperties(path)

Init == Start(FileLengths)

Next ==
    \/ \E seg \in Segments : ReadSegment(seg)
    \/ MapSegmentsDone
    \/ Calls

Spec == Init /\ [][Next]_vars

---------------------------------------------------------------------------
(* Files with a corrupted tail: well-formed segments, then a last segment   *)
(* whose next-segment offset is all ones and of which the file holds the    *)
(* first bytes only                                                         *)

MaxTail == 80

BodySegments ==
    {Segment(t, objs, RawBytes) :
        t \in {NewList, Additive},
        objs \in {<<Fresh("a", I16, 1, <<>>)>>,
                  <<Fresh("a", I16, 1, <<>>), Fresh("b", I16, 1, <<>>)>>}}

TailSegments ==
    {TailSegment(t, objs) :
        t \in {NewList, Additive},
        objs \in {<<Fresh("a", I16, 2, <<Prop("p", 1)>>)>>,
                  <<Fresh("b", I16, 1, <<>>)>>,
                  <<Prev("a", <<Prop("p", 1)>>), Fresh("b", I16, 1, <<>>)>>}}

TailFileLengths == {k * SegPitch + t : k \in 1..(MaxSegs - 1), t \in 0..MaxTail}

InitTail == Start(TailFileLengths)

NextTail ==
    \/ \E seg \in BodySegments :
          next_segment_address + SegPitch <= file_length /\ ReadSegment(seg)
    \/ \E seg \in TailSegments :
          next_segment_address + SegPitch > file_length /\ ReadSegment(seg)
    \/ MapSegmentsDone
    \/ Calls

SpecTail == InitTail /\ [][NextTail]_vars

---------------------------------------------------------------------------
(* Files whose segments set properties: one object with raw data, declared  *)
(* with each discriminator, and one without                                 *)

PropertyLists ==
    {<<Prop("p", 1)>>, <<Prop("q", 1), Prop("p", 2)>>, <<Prop("p", 2), Prop("q", 2)>>}

PropObjectLists ==
    {<<Fresh("a", I16, 1, props)>> : props \in PropertyLists \cup {<<>>}}
    \cup {<<Prev("a", props)>> : props \in PropertyLists}
    \cup {<<NoRaw("a", props)>> : props \in PropertyLists}
    \cup {<<NoRaw("b", <<Prop("p", 1)>>)>>}

PropSegments ==
    {seg \in {Segment(t, objs, RawBytes) :
                 t \in {NewList, Additive}, objs \in PropObjectLists} :
        WellLaidOut(seg)}

NextProps ==
    \/ \E seg \in PropSegments : ReadSegment(seg)
    \/ MapSegmentsDone
    \/ Calls

SpecProps == Init /\ [][NextProps]_vars

---------------------------------------------------------------------------
(* Files whose lead-ins are not to be trusted: every segment renews the     *)
(* object list; its next-segment offset reaches the next segment or one     *)
(* segment further, and its raw-data offset leaves a raw block of RawBytes, *)
(* of one byte more, or exceeds the next-segment offset                     *)

NextSegOffsets == {SegPitch - HEADER_LEN, 2 * SegPitch - HEADER_LEN}

RawDataOffsets(nso) == {nso - RawBytes, nso - RawBytes - 1, nso + 2}

LayoutSegments ==
    UNION {{[toc_mask |-> NewList, next_seg_offset |-> nso, raw_data_offset |-> rdo,
             objs |-> objs] :
               rdo \in RawDataOffsets(nso),
               objs \in {<<Fresh("a", I16, 1, <<>>)>>,
                         <<Fresh("a", I16, 2, <<>>)>>,
                         <<Fresh("a", I16, 1, <<>>), Fresh("b", I16, 1, <<>>)>>}} :
           nso \in NextSegOffsets}

NextLayout ==
    \/ \E seg \in LayoutSegments : ReadSegment(seg)
    \/ MapSegmentsDone
    \/ Calls

SpecLayout == Init /\ [][NextLayout]_vars

---------------------------------------------------------------------------
(* Files of interleaved segments: each segment is two pitches long, renews  *)
(* the object list and declares an I16 channel a and an I32 channel b, in   *)
(* either order, with the same number of values per chunk; its raw block    *)
(* holds one or two whole chunks                                            *)

MaxVals == 2

Interleaved == NewList + KTocInterleavedData

\* A segment of two pitches whose raw block is its last raw bytes
LongSegment(toc_mask, objs, raw) ==
    [toc_mask |-> toc_mask,
     next_seg_offset |-> 2 * SegPitch - HEADER_LEN,
     raw_data_offset |-> 2 * SegPitch - HEADER_LEN - raw,
     objs |-> objs]

\* The bytes of one chunk of the channels objs declares
RECURSIVE ChunkBytes(_)
ChunkBytes(objs) ==
    IF objs = <<>> THEN 0
    ELSE size(from_u32(Head(objs).raw_type)[1])[1] * Head(objs).no_vals * Head(objs).dim
         + ChunkBytes(Tail(objs))

InterleavedLists ==
    UNION {{<<Fresh("a", I16, n, <<>>), Fresh("b", I32, n, <<>>)>>,
            <<Fresh("b", I32, n, <<>>), Fresh("a", I16, n, <<>>)>>} : n \in 1..MaxVals}

InterleavedSegments ==
    {seg \in {LongSegment(Interleaved, objs, c * ChunkBytes(objs)) :
                 objs \in InterleavedLists, c \in {1, 2}} :
        WellLaidOut(seg)}

LongFileLengths == {k * 2 * SegPitch : k \in 0..MaxSegs}

InitInterleaved == Start(LongFileLengths)

NextInterleaved ==
    \/ \E seg \in InterleavedSegments : ReadSegment(seg)
    \/ MapSegmentsDone
    \/ Calls

SpecInterleaved == InitInterleaved /\ [][NextInterleaved]_vars

---------------------------------------------------------------------------
(* Files of one segment more, whose segments declare two channels in        *)
(* either order or one of them, with fresh size info or with the one it had *)
(* before: an object can leave the live list and be declared again          *)

LiveLists ==
    {<<Fresh("a", I16, 1, <<>>)>>, <<Fresh("b", I16, 1, <<>>)>>,
     <<Fresh("a", I16, 1, <<>>), Fresh("b", I16, 1, <<>>)>>,
     <<Fresh("b", I16, 1, <<>>), Fresh("a", I16, 1, <<>>)>>,
     <<Prev("b", <<>>)>>}

LiveSegments ==
    {Segment(t, objs, RawBytes) : t \in {NewList, Additive}, objs \in LiveLists}

LiveFileLengths == {k * SegPitch : k \in 0..(MaxSegs + 1)}

InitLive == Start(LiveFileLengths)

NextLive ==
    \/ \E seg \in LiveSegments : ReadSegment(seg)
    \/ MapSegmentsDone
    \/ Calls

SpecLive == InitLive /\ [][NextLive]_vars

---------------------------------------------------------------------------
(* What the file declares, read off the history of the walk *)

\* The object records of the segments read so far, in file order
RECURSIVE Records(_)
Records(k) == IF k = 0 THEN <<>> ELSE Records(k - 1) \o file[k].seg.objs

\* The paths of the object records read so far, in file order
DeclaredPaths == [n \in 1..Len(Records(Len(file))) |-> Records(Len(file))[n].path]

\* The elements of S in increasing order
Ascending(S) ==
    [n \in 1..Cardinality(S) |-> CHOOSE k \in S : Cardinality({j \in S : j < k}) = n - 1]

\* seq without the repetitions of an element seen before
FirstSightings(seq) ==
    [n \in 1..Cardinality({seq[k] : k \in 1..Len(seq)}) |->
        seq[Ascending({k \in 1..Len(seq) : \A j \in 1..(k - 1) : seq[j] # seq[k]})[n]]]

\* The paths the segment at place k of the file declares
PathsOf(k) == {file[k].seg.objs[j].path : j \in 1..Len(file[k].seg.objs)}

\* The segment at place k of the file renews the object list
RenewsList(k) == has_flag(file[k].seg.toc_mask, KTocNewObjList)

\* The address of the raw block of the segment at place k
RawStart(k) == file[k].start + HEADER_LEN + file[k].seg.raw_data_offset

---------------------------------------------------------------------------
(* The layout the format prescribes for the file read so far: the live     *)
(* list after each segment, the descriptor in force for each object, the   *)
(* chunks of each segment and the values of each channel in file order.    *)

\* The places in the segment at place k of the records of x that carry size info
SizedRecords(k, x) ==
    {j \in 1..Len(file[k].seg.objs) :
        file[k].seg.objs[j].path = x /\ has_sizeinfo(file[k].seg.objs[j])}

\* The descriptor in force for x in the segment at place k: Some(record) or None
RECURSIVE RefDesc(_, _)
RefDesc(k, x) ==
    IF k = 0 THEN None
    ELSE IF SizedRecords(k, x) # {}
         THEN Some(file[k].seg.objs[CHOOSE j \in SizedRecords(k, x) :
                                        \A i \in SizedRecords(k, x) : i <= j])
    ELSE RefDesc(k - 1, x)

\* The paths the segment at place k lists with raw data, in declaration order
RefListed(k) ==
    [n \in 1..Len(SelectSeq(file[k].seg.objs, LAMBDA o : o.index_info_len # NO_RAW_DATA)) |->
        SelectSeq(file[k].seg.objs, LAMBDA o : o.index_info_len # NO_RAW_DATA)[n].path]

\* The live list after the segment at place k
RECURSIVE RefLive(_)
RefLive(k) ==
    IF k = 0 THEN <<>>
    ELSE IF RenewsList(k) THEN FirstSightings(RefListed(k))
    ELSE FirstSightings(RefLive(k - 1) \o RefListed(k))

\* The bytes of x in one chunk of the segment at place k
RefBytes(k, x) ==
    IF RefDesc(k, x) = None THEN 0
    ELSE size(from_u32(RefDesc(k, x)[1].raw_type)[1])[1]
         * RefDesc(k, x)[1].no_vals * RefDesc(k, x)[1].dim

\* The bytes of the first n live objects in one chunk of the segment at place k
RECURSIVE RefOffset(_, _)
RefOffset(k, n) ==
    IF n = 0 THEN 0 ELSE RefOffset(k, n - 1) + RefBytes(k, RefLive(k)[n])

RefChunkSize(k) == RefOffset(k, Len(RefLive(k)))

RefNoChunks(k) ==
    IF RefChunkSize(k) > 0
    THEN (file[k].seg.next_seg_offset - file[k].seg.raw_data_offset) \div RefChunkSize(k)
    ELSE 0

\* x has values in the segment at place k
RefPresent(k, x) == contains(RefLive(k), x) /\ RefBytes(k, x) > 0 /\ RefNoChunks(k) > 0

\* The place of x in the live list after the segment at place k
RefPlace(k, x) == CHOOSE n \in 1..Len(RefLive(k)) : RefLive(k)[n] = x

\* The read pairs of x in the segment at place k: one per chunk
RefPairs(k, x) ==
    IF ~RefPresent(k, x) THEN <<>>
    ELSE [c \in 1..RefNoChunks(k) |->
             [start_index |-> RawStart(k) + (c - 1) * RefChunkSize(k)
                              + RefOffset(k, RefPlace(k, x) - 1),
              no_values |-> RefDesc(k, x)[1].no_vals]]

\* The values of x in the segment at place k (contiguous layout), chunk by chunk
RefValues(k, x) ==
    IF ~RefPresent(k, x) THEN <<>>
    ELSE [m \in 1..(RefNoChunks(k) * RefDesc(k, x)[1].no_vals) |->
             [addr |-> RawStart(k)
                       + ((m - 1) \div RefDesc(k, x)[1].no_vals) * RefChunkSize(k)
                       + RefOffset(k, RefPlace(k, x) - 1)
                       + ((m - 1) % RefDesc(k, x)[1].no_vals)
                         * size(from_u32(RefDesc(k, x)[1].raw_type)[1])[1],
              width |-> size(from_u32(RefDesc(k, x)[1].raw_type)[1])[1],
              bigendian |-> has_flag(file[k].seg.toc_mask, KTocBigEndian)]]

\* The read plan of x over the first k segments
RECURSIVE RefPlan(_, _)
RefPlan(k, x) == IF k = 0 THEN <<>> ELSE RefPlan(k - 1, x) \o RefPairs(k, x)

\* The values of x over the first k segments, in file order
RECURSIVE RefData(_, _)
RefData(k, x) == IF k = 0 THEN <<>> ELSE RefData(k - 1, x) \o RefValues(k, x)

\* The start and the length of each pair of the read plan the index holds for x
Plan(x) ==
    [n \in 1..Len(get(all_objects, x).read_map) |->
        [start_index |-> get(all_objects, x).read_map[n].start_index,
         no_values |-> get(all_objects, x).read_map[n].no_values]]

---------------------------------------------------------------------------
(* Claims *)

\* C1: while the walk goes on and after a successful open, the keys of
\* all_objects are the paths declared by the segments parsed so far, each once,
\* in the order of their first sighting in the file; all_objects() returns that
\* list.  No segment, with NewObjectList or without, removes or reorders one.
C1_AllObjectsFirstSighting ==
    /\ pc \in {"map_segments", "open"} =>
           keys(all_objects) = FirstSightings(DeclaredPaths)
    /\ result.op = "all_objects" => result.value = FirstSightings(DeclaredPaths)

\* C1 witness: all_objects() was called on a file whose second segment renews
\* the object list and omits the object the first one declared
C1_Witness ==
    /\ result.op = "all_objects"
    /\ Len(file) = 2
    /\ has_flag(file[2].seg.toc_mask, KTocNewObjList)
    /\ PathsOf(1) = {"a"}
    /\ PathsOf(2) = {"b"}
    /\ result.value = <<"a", "b">>

\* C2: whenever load_data returned an array for an indexed object, the array
\* has as many elements as the object's accumulated total_values
C2_LoadedLengthIsTotalValues ==
    (result.op = "load_data" /\ result.kind = "Ok") =>
        Len(result.value.data) = get(all_objects, result.path).total_values

\* C2 witness: load_data returned an array for a channel whose values were
\* indexed before a later segment re-declared it with the Void type
C2_Witness ==
    /\ result.op = "load_data"
    /\ result.kind = "Ok"
    /\ result.value.type = "Void"
    /\ get(all_objects, result.path).total_values > 0

\* The file is segment A, which renews the list and introduces x with size
\* info, followed by segment B, which does not renew the list and lists x with
\* discriminator 0 or with fresh size info; x's type is one load_data loads
C3_Scenario(x) ==
    /\ pc = "open"
    /\ Len(file) = 2
    /\ Len(segments) = 2
    /\ RenewsList(1)
    /\ ~RenewsList(2)
    /\ SizedRecords(1, x) # {}
    /\ \E j \in 1..Len(file[2].seg.objs) :
          /\ file[2].seg.objs[j].path = x
          /\ file[2].seg.objs[j].index_info_len # NO_RAW_DATA
    /\ \A k \in 1..2 : from_u32(RefDesc(k, x)[1].raw_type)[1] \in LoadableTypes

\* C3: in that file x's read plan is A's pairs followed by B's, laid out by the
\* descriptors in force in each, and load_data(x) returns A's values followed
\* by B's in file order
C3_AdditiveSegmentAppends ==
    \A x \in Paths :
        C3_Scenario(x) =>
            /\ Plan(x) = RefPlan(2, x)
            /\ (result.op = "load_data" /\ result.path = x) =>
                   /\ result.kind = "Ok"
                   /\ result.value.data = RefData(2, x)

\* C3 witness: the scenario with x the only live channel, its values loaded
C3_Witness ==
    /\ C3_Scenario("a")
    /\ RefLive(2) = <<"a">>
    /\ result.op = "load_data"
    /\ result.path = "a"
    /\ result.kind = "Ok"
    /\ result.value.data = RefData(2, "a")
    /\ Len(RefValues(1, "a")) > 0
    /\ Len(RefValues(2, "a")) > 0

\* C4: reading a last segment whose next-segment offset is all ones ends the
\* walk with open succeeding and leaves the index (all_objects, live_objects,
\* segments) as the preceding segments left it
C4_CorruptedTailContributesNothing ==
    [][(Len(file') = Len(file) + 1
        /\ file'[Len(file')].seg.next_seg_offset = U64_MAX)
       => (pc' = "open" /\ index' = index)]_vars

\* C4 witness: open returned a file whose index lists an object that only the
\* truncated tail declares
C4_Witness ==
    /\ pc = "open"
    /\ Len(file) = 2
    /\ file[2].seg.next_seg_offset = U64_MAX
    /\ PathsOf(1) = {"a"}
    /\ keys(all_objects) = <<"a", "b">>

\* C5 as stated: open on an empty file fails with an unexpected end of file
\* and returns no file
C5_EmptyFileFails ==
    (file_length = 0 /\ pc # "map_segments") =>
        (pc = "failed" /\ open_err = "UnexpectedEof")

\* C5 as amended: open on an empty file does not fail; the file it returns
\* has an empty index
C5_EmptyFileOpensEmpty ==
    file_length = 0 =>
        /\ pc \in {"map_segments", "open"}
        /\ open_err = "Ok"
        /\ all_objects = <<>>
        /\ live_objects = <<>>
        /\ segments = <<>>

\* C5 witness: open returned on an empty file and all_objects() listed nothing
C5_Witness ==
    /\ file_length = 0
    /\ pc = "open"
    /\ result.op = "all_objects"
    /\ result.value = <<>>

\* x is declared in the file read so far, and by no record other than ones
\* with the no-raw-data discriminator
OnlyNoRaw(x) ==
    /\ \E n \in 1..Len(DeclaredPaths) : DeclaredPaths[n] = x
    /\ \A n \in 1..Len(DeclaredPaths) :
          DeclaredPaths[n] = x => Records(Len(file))[n].index_info_len = NO_RAW_DATA

\* C6: a load_data call on an open file returns ChannelNotFound when the path
\* is not a key of the index, and ObjectHasNoRawData when the object is there
\* without a raw data type, as an object only ever declared with the
\* no-raw-data discriminator is; either way the reader is not moved and no
\* array is returned
C6_LoadDataErrors ==
    [][(pc = "open" /\ result'.op = "load_data") =>
         /\ ~contains_key(all_objects, result'.path) =>
                /\ result'.kind = "Err"
                /\ result'.value = "ChannelNotFound"
                /\ reader_pos' = reader_pos
         /\ (contains_key(all_objects, result'.path)
             /\ get(all_objects, result'.path).last_object.raw_data_type = None) =>
                /\ result'.kind = "Err"
                /\ result'.value = "ObjectHasNoRawData"
                /\ reader_pos' = reader_pos
         /\ OnlyNoRaw(result'.path) =>
                /\ result'.kind = "Err"
                /\ result'.value = "ObjectHasNoRawData"]_vars

\* C6 witness: load_data answered ObjectHasNoRawData for an object of a file
\* that also holds a channel with data
C6_Witness ==
    /\ result.op = "load_data"
    /\ result.kind = "Err"
    /\ result.value = "ObjectHasNoRawData"
    /\ OnlyNoRaw(result.path)
    /\ \E x \in Paths : contains_key(all_objects, x) /\ get(all_objects, x).total_values > 0

\* C7: load_data on an indexed object returns the whole channel or an error
\* value; for a raw type it does not load it returns a not-implemented error
C7_LoadDataArrayOrError ==
    (result.op = "load_data" /\ contains_key(all_objects, result.path)) =>
        /\ result.kind \in {"Ok", "Err"}
        /\ (/\ get(all_objects, result.path).last_object.raw_data_type # None
            /\ get(all_objects, result.path).last_object.raw_data_type[1]
                   \notin LoadableTypes \cup {"Void", "TdmsString"})
           => (result.kind = "Err" /\ result.value = "NotImplemented")

\* C7 witness: load_data was called on a channel of extended-float type
C7_Witness ==
    /\ result.op = "load_data"
    /\ contains_key(all_objects, result.path)
    /\ get(all_objects, result.path).last_object.raw_data_type = Some("ExtendedFloat")
    /\ pc = "aborted"

\* The properties the records of x among records set, in their order
RECURSIVE SetIn(_, _)
SetIn(records, x) ==
    IF records = <<>> THEN <<>>
    ELSE (IF Head(records).path = x THEN Head(records).props ELSE <<>>)
         \o SetIn(Tail(records), x)

\* The properties the records of x set, in file order
PropsSet(x) == SetIn(Records(Len(file)), x)

\* The names of a sequence of properties, in its order
NamesOf(set) == [n \in 1..Len(set) |-> set[n].prop_name]

\* The names of the properties the records of x set, in file order
NamesSet(x) == NamesOf(PropsSet(x))

\* The value of the last occurrence of name in a sequence of properties
LastOf(set, name) ==
    set[CHOOSE n \in 1..Len(set) :
            /\ set[n].prop_name = name
            /\ \A j \in (n + 1)..Len(set) : set[j].prop_name # name].property

\* The given names, each with the value of its last occurrence in set
LastValues(set, names) ==
    [n \in 1..Len(names) |-> [name |-> names[n], value |-> LastOf(set, names[n])]]

\* The property map the file prescribes for x: each name once, in the order
\* of its first occurrence, with the value of its last
RefProperties(x) == LastValues(PropsSet(x), FirstSightings(NamesSet(x)))

\* The names and values of a property map, in its iteration order
Listing(properties) ==
    [n \in 1..Len(properties) |->
        [name |-> properties[n].key, value |-> properties[n].value.property]]

C9_DataObjectsSubsequence ==
    result.op = "data_objects" =>
        /\ \A n \in 1..Len(result.value) :
              /\ contains_key(all_objects, result.value[n])
              /\ get(all_objects, result.value[n]).last_object.no_bytes > 0
              /\ ~OnlyNoRaw(result.value[n])
        /\ \A n \in 1..Len(all_objects) :
              all_objects[n].value.last_object.no_bytes > 0 =>
                  contains(result.value, all_objects[n].key)
        /\ \A n, m \in 1..Len(result.value) :
              n < m => get_index_of(all_objects, result.value[n])
                       < get_index_of(all_objects, result.value[m])

\* C9 witness: data_objects was called on a file with a channel with data and
\* an object only declared without raw data, and listed the channel alone
C9_Witness ==
    /\ result.op = "data_objects"
    /\ Len(all_objects) = 2
    /\ \E x \in Paths : OnlyNoRaw(x)
    /\ Len(result.value) = 1

\* C10: no call on an open file changes the index: all_objects with the
\* descriptors, properties, read plans, totals and endianness flags,
\* live_objects and segments stay as open left them
C10_IndexImmutable == [][pc = "open" => index' = index]_vars

\* C10 witness: a load_data call returned the values of a channel
C10_Witness ==
    /\ pc = "open"
    /\ result.op = "load_data"
    /\ result.kind = "Ok"
    /\ Len(result.value.data) > 0
    /\ reader_pos = result.value.data[Len(result.value.data)].addr
                    + result.value.data[Len(result.value.data)].width


\* The walk ended abnormally (a panic or an abort) before open returned
OpenAborted == pc = "aborted" /\ result = NoResult

\* C11: open ends with an index or with one of the listed errors (an I/O error
\* other than an end of file, invalid UTF-8, an unknown type code,
\* NoPreviousObject); the walk never ends abnormally, neither on a first
\* segment without the NewObjectList flag nor otherwise
C11_OpenEndsWithIndexOrListedError ==
    /\ ~OpenAborted
    /\ pc = "failed" => open_err \in {"Io", "FromUtf8", "RawDataTypeNotFound",
                                       "NoPreviousObject"}

\* C11 witness: the walk ended abnormally on a first segment that lacks the
\* NewObjectList flag
C11_Witness ==
    /\ OpenAborted
    /\ Len(file) = 1
    /\ ~RenewsList(1)
    /\ segments = <<>>


\* The bytes of one value of the latest type of an indexed object
SampleSize(object_map) == type_size(object_map.last_object)

\* C12: after open, every ReadPair of every object ends inside the file:
\* start_offset + value_count * sample_size <= file_length, also when a
\* lead-in declares a next-segment offset that reaches past the end of the file
C12_ReadPairsInsideFile ==
    pc = "open" =>
        \A n \in 1..Len(all_objects) :
            \A k \in 1..Len(all_objects[n].value.read_map) :
                all_objects[n].value.read_map[k].start_index
                + all_objects[n].value.read_map[k].no_values * SampleSize(all_objects[n].value)
                    <= file_length

\* C12 witness: open returned an index for a file of one segment whose
\* next-segment offset reaches past the end of the file, and the channel's
\* read plan is not empty
C12_Witness ==
    /\ pc = "open"
    /\ Len(file) = 1
    /\ HEADER_LEN + file[1].seg.next_seg_offset > file_length
    /\ file[1].seg.raw_data_offset < file[1].seg.next_seg_offset
    /\ contains_key(all_objects, "a")
    /\ Len(get(all_objects, "a").read_map) > 0


---------------------------------------------------------------------------
(* The interleaved layout the format prescribes: in the raw block of a      *)
(* segment the values of the live channels alternate, one value of each in  *)
(* the order of the live list                                               *)

\* The bytes of one value of x in the segment at place k
RefSampleSize(k, x) == size(from_u32(RefDesc(k, x)[1].raw_type)[1])[1]

\* The bytes of one value of each of the first n live channels of the segment
\* at place k
RECURSIVE RefSamplesBefore(_, _)
RefSamplesBefore(k, n) ==
    IF n = 0 THEN 0 ELSE RefSamplesBefore(k, n - 1) + RefSampleSize(k, RefLive(k)[n])

\* The bytes of one value of every live channel of the segment at place k
RefSampleSum(k) == RefSamplesBefore(k, Len(RefLive(k)))

\* The number of values of each channel in the raw block of the segment at
\* place k: whole chunks only
RefInterleavedCount(k, x) ==
    ((file[k].seg.next_seg_offset - file[k].seg.raw_data_offset)
        \div (RefDesc(k, x)[1].no_vals * RefSampleSum(k))) * RefDesc(k, x)[1].no_vals

\* The values of x in the segment at place k, in recording order
RefInterleavedValues(k, x) ==
    IF ~contains(RefLive(k), x) THEN <<>>
    ELSE [m \in 1..RefInterleavedCount(k, x) |->
             [addr |-> RawStart(k) + (m - 1) * RefSampleSum(k)
                       + RefSamplesBefore(k, RefPlace(k, x) - 1),
              width |-> RefSampleSize(k, x),
              bigendian |-> has_flag(file[k].seg.toc_mask, KTocBigEndian)]]

\* The values of x over the first k segments, in recording order
RECURSIVE RefInterleavedData(_, _)
RefInterleavedData(k, x) ==
    IF k = 0 THEN <<>> ELSE RefInterleavedData(k - 1, x) \o RefInterleavedValues(k, x)

\* The segment whose raw block holds the address
SegmentAt(addr) ==
    CHOOSE k \in 1..Len(file) :
        RawStart(k) <= addr /\ addr < file[k].start + HEADER_LEN + file[k].seg.next_seg_offset

---------------------------------------------------------------------------

\* The sum of latest.no_bytes over the first n objects of the live list
RECURSIVE LiveBytes(_)
LiveBytes(n) ==
    IF n = 0 THEN 0
    ELSE LiveBytes(n - 1) + get(all_objects, live_objects[n]).last_object.no_bytes

\* The segment parsed last is the last one of the file read so far
LastParsed ==
    /\ pc \in {"map_segments", "open"}
    /\ segments # <<>>
    /\ Len(file) = Len(segments)

\* C14: right after a segment S is parsed, with NewObjectList or without, the
\* chunk size recorded for S in segments is the sum of latest.no_bytes over
\* live_objects, the live objects S does not declare again included, and
\* no_chunks(S) was computed from that sum
C14_ChunkSizeIsLiveBytes ==
    LastParsed =>
        /\ segments[Len(segments)].chunk_size = LiveBytes(Len(live_objects))
        /\ segments[Len(segments)].no_chunks =
               IF LiveBytes(Len(live_objects)) > 0
               THEN (segments[Len(segments)].next_seg_offset
                     - segments[Len(segments)].raw_data_offset)
                    \div LiveBytes(Len(live_objects))
               ELSE 0

\* C14 witness: a segment without NewObjectList that declares one of the two
\* live channels again was parsed with a chunk count computed from that
\* channel's bytes alone
C14_Witness ==
    /\ LastParsed
    /\ Len(segments) = 2
    /\ ~RenewsList(2)
    /\ live_objects = <<"a", "b">>
    /\ PathsOf(2) = {"a"}
    /\ LiveBytes(2) = 4
    /\ segments[2].no_chunks = 2
    /\ segments[2].chunk_size = 0


\* C15: right after a segment S with NewObjectList is parsed, live_objects is
\* the paths of the objects S declares with a discriminator other than
\* 0xFFFFFFFF, in declaration order: an object declared without raw data is
\* not live, and no path from before S is live unless S declares it
C15_NewListLiveObjects ==
    (LastParsed /\ RenewsList(Len(file))) =>
        live_objects = FirstSightings(RefListed(Len(file)))

\* C15 witness: a segment with NewObjectList whose only object has the
\* discriminator 0xFFFFFFFF was parsed and the object is live
C15_Witness ==
    /\ LastParsed
    /\ RenewsList(Len(file))
    /\ Len(file[Len(file)].seg.objs) = 1
    /\ file[Len(file)].seg.objs[1].index_info_len = NO_RAW_DATA
    /\ live_objects = <<file[Len(file)].seg.objs[1].path>>


\* The step parsed a segment without NewObjectList
ParsedAdditive ==
    /\ Len(file') = Len(file) + 1
    /\ Len(segments') = Len(segments) + 1
    /\ ~has_flag(file'[Len(file')].seg.toc_mask, KTocNewObjList)

\* The paths the records objs declare, in declaration order
DeclaredIn(objs) == [n \in 1..Len(objs) |-> objs[n].path]

\* C16 as stated: a segment S without NewObjectList leaves live_objects as it
\* was, followed by the objects no earlier segment mentions, in declaration
\* order; an object already known to the index is not appended
C16_AdditiveAppendsFirstSeen ==
    [][ParsedAdditive =>
          live_objects' =
              live_objects
              \o FirstSightings(SelectSeq(DeclaredIn(file'[Len(file')].seg.objs),
                                          LAMBDA x : ~contains(DeclaredPaths, x)))]_vars

\* C16 as amended: a segment S without NewObjectList leaves live_objects as it
\* was, followed by the objects S declares that were not live before S, in
\* declaration order, each once
C16_AdditiveAppendsNotLive ==
    [][ParsedAdditive =>
          live_objects' =
              live_objects
              \o FirstSightings(SelectSeq(DeclaredIn(file'[Len(file')].seg.objs),
                                          LAMBDA x : ~contains(live_objects, x)))]_vars

\* C16 witness: after a segment that renewed the list without b, a segment
\* without NewObjectList declared b, known to the index since the first
\* segment, and b is live again, after a
C16_Witness ==
    /\ LastParsed
    /\ Len(file) = 3
    /\ RenewsList(2)
    /\ ~RenewsList(3)
    /\ PathsOf(1) = {"a", "b"}
    /\ PathsOf(2) = {"a"}
    /\ DeclaredIn(file[3].seg.objs) = <<"b">>
    /\ file[3].seg.objs[1].index_info_len # NO_RAW_DATA
    /\ live_objects = <<"a", "b">>


---------------------------------------------------------------------------

\* The step parsed a segment
Parsed ==
    /\ Len(file') = Len(file) + 1
    /\ Len(segments') = Len(segments) + 1

\* The sum of latest.no_bytes over the first n objects of the list live, the
\* index being objects
RECURSIVE BytesBefore(_, _, _)
BytesBefore(objects, live, n) ==
    IF n = 0 THEN 0
    ELSE BytesBefore(objects, live, n - 1) + get(objects, live[n]).last_object.no_bytes

\* The place of x in the list live
PlaceIn(live, x) == CHOOSE n \in 1..Len(live) : live[n] = x

\* The read plan x had before the step
PlanBefore(x) == IF contains_key(all_objects, x) THEN get(all_objects, x).read_map ELSE <<>>

\* The start offsets of the pairs the step appended to the plan of x
AppendedStarts(x) ==
    [n \in 1..(Len(get(all_objects', x).read_map) - Len(PlanBefore(x))) |->
        get(all_objects', x).read_map[Len(PlanBefore(x)) + n].start_index]

\* The start offsets the layout of the segment S just parsed gives x: one per
\* chunk of S, chunk i at i * chunk_size(S) + the bytes of the live objects
\* before x, from the start of the raw block
ChunkStarts(x) ==
    [i \in 1..segments'[Len(segments')].no_chunks |->
        file'[Len(file')].start + HEADER_LEN + file'[Len(file')].seg.raw_data_offset
        + (i - 1) * BytesBefore(all_objects', live_objects', Len(live_objects'))
        + BytesBefore(all_objects', live_objects', PlaceIn(live_objects', x) - 1)]

\* C17: parsing a contiguous segment S appends to the plan of every live
\* object with latest.no_bytes > 0 exactly no_chunks(S) pairs, the i-th at
\* S.start + 28 + S.raw_data_offset + i * chunk_size(S) + relative_position,
\* relative_position being the bytes of the live objects before it, and
\* appends nothing to the plan of any other object
C17_OnePairPerChunk ==
    [][(Parsed /\ ~has_flag(file'[Len(file')].seg.toc_mask, KTocInterleavedData)) =>
          \A n \in 1..Len(all_objects') :
              /\ SubSeq(all_objects'[n].value.read_map, 1,
                        Len(PlanBefore(all_objects'[n].key)))
                     = PlanBefore(all_objects'[n].key)
              /\ AppendedStarts(all_objects'[n].key) =
                     IF contains(live_objects', all_objects'[n].key)
                        /\ all_objects'[n].value.last_object.no_bytes > 0
                     THEN ChunkStarts(all_objects'[n].key)
                     ELSE <<>>]_vars

\* C17 witness: a segment without NewObjectList that declares a again while a
\* and b are live was parsed, and a got two pairs two bytes apart where one
\* chunk holds four bytes
C17_Witness ==
    /\ LastParsed
    /\ Len(file) = 2
    /\ ~RenewsList(2)
    /\ live_objects = <<"a", "b">>
    /\ PathsOf(2) = {"a"}
    /\ LiveBytes(2) = 4
    /\ Len(Plan("a")) = 3
    /\ Plan("a")[2].start_index = RawStart(2)
    /\ Plan("a")[3].start_index = RawStart(2) + 2


\* C18: every pair appended while a segment S is indexed covers bytes of S's
\* raw block only, [S.start + 28 + raw_data_offset, S.start + 28 +
\* next_seg_offset): it starts at or after the start of the block and ends,
\* latest.no_bytes further, at or before its end; so also when S has no
\* NewObjectList flag and declares only some of the live objects
C18_PairsInsideRawBlock ==
    [][Parsed =>
          \A n \in 1..Len(all_objects') :
              \A k \in 1..Len(AppendedStarts(all_objects'[n].key)) :
                  /\ AppendedStarts(all_objects'[n].key)[k]
                         >= file'[Len(file')].start + HEADER_LEN
                            + file'[Len(file')].seg.raw_data_offset
                  /\ AppendedStarts(all_objects'[n].key)[k]
                     + all_objects'[n].value.last_object.no_bytes
                         <= file'[Len(file')].start + HEADER_LEN
                            + file'[Len(file')].seg.next_seg_offset]_vars

\* C18 witness: a segment without NewObjectList that declares a again while a
\* and b are live was parsed, and the last pair of b starts where the raw
\* block of the segment ends
C18_Witness ==
    /\ LastParsed
    /\ Len(file) = 2
    /\ ~RenewsList(2)
    /\ live_objects = <<"a", "b">>
    /\ PathsOf(2) = {"a"}
    /\ Plan("b")[Len(Plan("b"))].start_index =
           file[2].start + HEADER_LEN + file[2].seg.next_seg_offset


---------------------------------------------------------------------------

\* The sum of value_count over the first n pairs of a read plan
RECURSIVE ValueCount(_, _)
ValueCount(read_map, n) ==
    IF n = 0 THEN 0 ELSE ValueCount(read_map, n - 1) + read_map[n].no_values

\* After every prefix of parsed segments and after open, the values of each
\* object's read plan add up to its total_values
PlanCountsTotalValues ==
    pc \in {"map_segments", "open"} =>
        \A n \in 1..Len(all_objects) :
            ValueCount(all_objects[n].value.read_map, Len(all_objects[n].value.read_map))
                = all_objects[n].value.total_values

\* A step only ever extends a read plan and never lowers total_values
PlanGrows ==
    \A n \in 1..Len(all_objects) :
        /\ Len(all_objects') >= n
        /\ all_objects'[n].key = all_objects[n].key
        /\ Len(all_objects'[n].value.read_map) >= Len(all_objects[n].value.read_map)
        /\ SubSeq(all_objects'[n].value.read_map, 1, Len(all_objects[n].value.read_map))
               = all_objects[n].value.read_map
        /\ all_objects'[n].value.total_values >= all_objects[n].value.total_values

\* C19: for every object the sum of value_count over its read plan equals its
\* total_values, after open and after each prefix of parsed segments; plan
\* and counter only grow
C19_PlanCountsTotalValues == []PlanCountsTotalValues /\ [][PlanGrows]_vars

\* C19 witness: open returned an index in which a channel has three pairs from
\* two segments, of two values and of one value each, and total_values 4
C19_Witness ==
    /\ pc = "open"
    /\ Len(segments) = 2
    /\ contains_key(all_objects, "a")
    /\ Len(get(all_objects, "a").read_map) = 3
    /\ get(all_objects, "a").read_map[1].no_values = 2
    /\ get(all_objects, "a").read_map[3].no_values = 1
    /\ get(all_objects, "a").total_values = 4


---------------------------------------------------------------------------

\* C20: a segment S whose metadata was read is parsed, and no_chunks(S) is the
\* integer quotient (next_seg_offset - raw_data_offset) / chunk_size when
\* chunk_size > 0 and 0 otherwise, so that no_chunks(S) * chunk_size(S) <=
\* next_seg_offset(S) - raw_data_offset(S); a remainder is not an error, and a
\* raw_data_offset beyond next_seg_offset yields no wrapped-around chunk
\* count and does not end the walk abnormally
C20_NoChunksIsQuotient ==
    /\ ~OpenAborted
    /\ LastParsed =>
           /\ segments[Len(segments)].no_chunks =
                  IF LiveBytes(Len(live_objects)) > 0
                  THEN (segments[Len(segments)].next_seg_offset
                        - segments[Len(segments)].raw_data_offset)
                       \div LiveBytes(Len(live_objects))
                  ELSE 0
           /\ segments[Len(segments)].no_chunks * LiveBytes(Len(live_objects))
                  <= segments[Len(segments)].next_seg_offset
                     - segments[Len(segments)].raw_data_offset

\* C20 witness: the walk ended abnormally on a segment that renews the object
\* list, declares a channel with raw data and has a raw_data_offset beyond its
\* next_seg_offset
C20_Witness ==
    /\ OpenAborted
    /\ Len(file) = 1
    /\ RenewsList(1)
    /\ file[1].seg.raw_data_offset > file[1].seg.next_seg_offset
    /\ LiveBytes(Len(live_objects)) > 0


---------------------------------------------------------------------------
(* Files with faults: object records the parser rejects, and files that end
   inside a segment's lead-in or metadata *)

\* A raw data type code DataTypeRaw::from_u32 does not know
UNKNOWN_TYPE == "000000FF"

\* Object lists with at most one rejected record, or two
ErrorLists ==
    {<<Fresh("a", I16, 1, <<>>)>>,
     <<Prev("a", <<>>)>>,
     <<NoRaw("a", <<>>)>>,
     <<Fresh("a", UNKNOWN_TYPE, 1, <<>>)>>,
     <<Fresh(InvalidUtf8Path, I16, 1, <<>>)>>,
     <<Fresh("a", I16, 1, <<>>), Prev("b", <<>>)>>,
     <<Prev("b", <<>>), Fresh("a", UNKNOWN_TYPE, 1, <<>>)>>,
     <<NoRaw("b", <<>>), Fresh(InvalidUtf8Path, I16, 1, <<>>)>>}

ErrorSegments ==
    {seg \in {Segment(NewList, objs, RawBytes) : objs \in ErrorLists} : WellLaidOut(seg)}

\* Where a file ends after its last whole segment: nowhere, in the lead-in, in
\* the first path, in the first discriminator, in the first size information,
\* in the raw block
Cuts ==
    {0, HEADER_LEN - 8, HEADER_LEN + 4 + 4, HEADER_LEN + 4 + (4 + NameLen) + 2,
     HEADER_LEN + 4 + (4 + NameLen) + 4 + 6, SegPitch - 2}

ErrorFileLengths ==
    {k * SegPitch + t : k \in 0..(MaxSegs - 1), t \in Cuts} \cup {MaxSegs * SegPitch}

InitErrors == Start(ErrorFileLengths)

NextErrors ==
    \/ \E seg \in ErrorSegments : ReadSegment(seg)
    \/ ReadFails
    \/ MapSegmentsDone
    \/ Calls

SpecErrors == InitErrors /\ [][NextErrors]_vars

---------------------------------------------------------------------------
(* C21 *)

\* Where record k of a segment at start begins
RecordBase(start, objs, k) == start + HEADER_LEN + 4 + ObjectsBytes(SubSeq(objs, 1, k - 1))

\* The paths a segment's records 1..k-1 name and accept
NamedBefore(objs, k) == {objs[j].path : j \in 1..(k - 1)}

\* The error record k raises, given the paths known before the segment, and
\* the file position the reader has reached when it raises it; None if the
\* record is accepted
Fault(start, objs, k, known) ==
    LET o == objs[k]
        base == RecordBase(start, objs, k)
    IN IF ~from_utf8(o.path)
       THEN Some([err |-> "FromUtf8", at |-> base + 4 + NameLen])
       ELSE IF o.index_info_len = DATA_INDEX_MATCHES_PREVIOUS
               /\ o.path \notin (known \cup NamedBefore(objs, k))
            THEN Some([err |-> "NoPreviousObject", at |-> base + 4 + NameLen + 4])
            ELSE IF has_sizeinfo(o) /\ from_u32(o.raw_type) = None
                 THEN Some([err |-> "RawDataTypeNotFound", at |-> base + 4 + NameLen + 8])
                 ELSE None

Faulty(start, objs, known) == {k \in 1..Len(objs) : Fault(start, objs, k, known) # None}

\* How reading the segment ends: with the first fault the file is long enough
\* to show, else with an end of file if the metadata does not fit, else well
Outcome(start, objs, known) ==
    LET ks == Faulty(start, objs, known)
        first == CHOOSE k \in ks : \A j \in ks : k <= j
    IN IF ks # {} /\ Fault(start, objs, first, known)[1].at <= file_length
       THEN Fault(start, objs, first, known)[1].err
       ELSE IF start + HEADER_LEN + MetaBytes(objs) > file_length
            THEN "UnexpectedEof"
            ELSE "Ok"

ReadOutcome ==
    Outcome(file'[Len(file')].start, file'[Len(file')].seg.objs,
            {keys(all_objects)[i] : i \in 1..Len(keys(all_objects))})

\* One step of open: a segment read that ends in an end of file makes open
\* return the file with the segments listed so far; one that ends in another
\* error makes open return that error; so does an I/O error
OpenStep ==
    /\ (Len(file') = Len(file) + 1 /\ ReadOutcome = "UnexpectedEof")
          => (pc' = "open" /\ open_err' = "Ok" /\ segments' = segments)
    /\ (Len(file') = Len(file) + 1 /\ ReadOutcome \notin {"UnexpectedEof", "Ok"})
          => (pc' = "failed" /\ open_err' = ReadOutcome)
    /\ (Len(file') = Len(file) + 1 /\ ReadOutcome = "Ok")
          => (pc' = "map_segments" /\ Len(segments') = Len(segments) + 1)
    /\ (pc = "map_segments" /\ pc' = "failed" /\ Len(file') = Len(file))
          => open_err' = "Io"

\* C21: a segment whose lead-in or metadata runs into the end of the file ends
\* open with success and the index built so far; any other I/O error, invalid
\* UTF-8, an unknown type and NoPreviousObject end open with that error, and a
\* failed open returns no file to call
C21_EofEndsOpenOtherErrorsFail ==
    /\ [][OpenStep]_vars
    /\ [](pc = "failed" => result = NoResult)
    /\ [](pc = "open" => open_err = "Ok")

\* C21 witness: the first segment was indexed, the file ends inside the second
\* segment's metadata, and open returned a file that lists the first
\* segment's channel
C21_Witness ==
    /\ pc = "open"
    /\ Len(file) = 2
    /\ Len(segments) = 1
    /\ file_length = SegPitch + HEADER_LEN + 4 + (4 + NameLen) + 2
    /\ result = [op |-> "all_objects", path |-> "", kind |-> "Ok", value |-> <<"a">>]


---------------------------------------------------------------------------
(* C22 *)

\* A record of an earlier segment gave x a raw data descriptor
DescribedBefore(x) == \E k \in 1..Len(file) : SizedRecords(k, x) # {}

\* Record k of objs says its descriptor matches the previous one, and neither
\* an earlier segment nor an earlier record of objs gave its path a descriptor
MatchesNothing(objs, k) ==
    /\ objs[k].index_info_len = DATA_INDEX_MATCHES_PREVIOUS
    /\ ~DescribedBefore(objs[k].path)
    /\ \A j \in 1..(k - 1) : ~(objs[j].path = objs[k].path /\ has_sizeinfo(objs[j]))

\* The records before k are read without an error
ReadUpTo(objs, k) ==
    \A j \in 1..(k - 1) :
        /\ from_utf8(objs[j].path)
        /\ ~MatchesNothing(objs, j)
        /\ ~(has_sizeinfo(objs[j]) /\ from_u32(objs[j].raw_type) = None)

\* The segment read in this step holds, within the file, a record that matches
\* a descriptor that does not exist
ReadsMatchOfNothing ==
    /\ Len(file') = Len(file) + 1
    /\ \E k \in 1..Len(file'[Len(file')].seg.objs) :
          /\ MatchesNothing(file'[Len(file')].seg.objs, k)
          /\ ReadUpTo(file'[Len(file')].seg.objs, k)
          /\ from_utf8(file'[Len(file')].seg.objs[k].path)
          /\ RecordBase(file'[Len(file')].start, file'[Len(file')].seg.objs, k)
                + 4 + NameLen + 4 <= file_length

\* C22: a record with discriminator 0x00000000 whose path has no raw data
\* descriptor yet, because the path was never seen or was only seen with the
\* no-raw-data discriminator, makes open fail with NoPreviousObject
C22_MatchOfNothingFails ==
    [][ReadsMatchOfNothing => (pc' = "failed" /\ open_err' = "NoPreviousObject")]_vars

\* C22 witness: the first segment declared a without raw data, the second
\* declared a with discriminator 0x00000000, and both were indexed
C22_Witness ==
    /\ Len(file) = 2
    /\ file[1].seg.objs = <<NoRaw("a", <<>>)>>
    /\ file[2].seg.objs = <<Prev("a", <<>>)>>
    /\ Len(segments) = 2
    /\ pc = "open"


---------------------------------------------------------------------------
(* Files with DAQmx channels *)

DAQMX_RAW == "FFFFFFFF"

\* The discriminator of a DAQmx digital line scaler in the file format
DIGITAL_LINE == "69130000"

\* A DAQmx object record: the discriminator, the size information, the scalers
\* (each named by its type code) and the data widths, then the properties
Daqmx(path, discriminator, scalers, widthvec, props) ==
    [path |-> path, index_info_len |-> discriminator, raw_type |-> DAQMX_RAW, dim |-> 1,
     no_vals |-> 1, daqmx |-> [scalers |-> scalers, widthvec |-> widthvec],
     props |-> props]

\* Lists that end with a DAQmx record.  A digital line record has no scalers:
\* its descriptor then reads as an empty property list where it is left unread
DaqmxLists ==
    {prefix \o <<Daqmx("a", FORMAT_CHANGING_SCALER, scalers, <<2>>, props)>> :
        prefix \in {<<>>, <<Fresh("b", I16, 1, <<>>)>>},
        scalers \in {<<>>, <<I16>>},
        props \in {<<>>, <<Prop("p", 1)>>}}
    \cup
    {prefix \o <<Daqmx("a", DIGITAL_LINE, <<>>, <<2>>, props)>> :
        prefix \in {<<>>, <<Fresh("b", I16, 1, <<>>)>>},
        props \in {<<>>, <<Prop("p", 1)>>}}

DaqmxSegments ==
    {seg \in {Segment(NewList, objs, RawBytes) : objs \in DaqmxLists} : WellLaidOut(seg)}

NextDaqmx ==
    \/ \E seg \in DaqmxSegments : ReadSegment(seg)
    \/ MapSegmentsDone
    \/ Calls

SpecDaqmx == Init /\ [][NextDaqmx]_vars

---------------------------------------------------------------------------
(* C23 *)

\* The segment read in this step and its last record
Incoming == file'[Len(file')]
LastRecord == Incoming.seg.objs[Len(Incoming.seg.objs)]

\* The properties of x hold every property of the record, with its value
HoldsProps(object, props) ==
    \A n \in 1..Len(props) :
        /\ contains_key(object.properties, props[n].prop_name)
        /\ get(object.properties, props[n].prop_name).property = props[n].property

\* C23: a record with discriminator 0x69120000 or 0x69130000 is read as size
\* information, DAQmx descriptor and properties: the reader ends after the
\* record, the descriptor is stored on the object and so are the properties
C23_DaqmxDescriptorStored ==
    [][(Len(file') = Len(file) + 1
        /\ LastRecord.index_info_len \in {FORMAT_CHANGING_SCALER, DIGITAL_LINE})
       => /\ Len(segments') = Len(segments) + 1
          /\ reader_pos' = Incoming.start + HEADER_LEN + MetaBytes(Incoming.seg.objs)
          /\ get(all_objects', LastRecord.path).last_object.daqmx_info
                = Some(LastRecord.daqmx)
          /\ HoldsProps(get(all_objects', LastRecord.path).last_object,
                        LastRecord.props)]_vars

\* C23 witness: a digital line record with a property was read and the object
\* has neither the descriptor nor the property
C23_Witness ==
    /\ Len(file) = 1
    /\ Len(segments) = 1
    /\ file[1].seg.objs = <<Daqmx("a", DIGITAL_LINE, <<>>, <<2>>, <<Prop("p", 1)>>)>>
    /\ get(all_objects, "a").last_object.daqmx_info = None
    /\ get(all_objects, "a").last_object.properties = <<>>


---------------------------------------------------------------------------
(* C24 *)

\* The paths the segment read in this step declares without raw data only
NoRawOnly ==
    {x \in {Incoming.seg.objs[k].path : k \in 1..Len(Incoming.seg.objs)} :
        \A k \in 1..Len(Incoming.seg.objs) :
            Incoming.seg.objs[k].path = x => Incoming.seg.objs[k].index_info_len = NO_RAW_DATA}

\* The raw data descriptor stored for x in the index objects
Descriptor(objects, x) ==
    LET o == IF contains_key(objects, x) THEN get(objects, x).last_object
             ELSE DefaultTdmsObject
    IN [raw_data_type |-> o.raw_data_type, raw_data_dim |-> o.raw_data_dim,
        no_raw_vals |-> o.no_raw_vals, no_bytes |-> o.no_bytes,
        daqmx_info |-> o.daqmx_info]

\* The ReadPairs of x in the index objects
PairsOf(objects, x) == IF contains_key(objects, x) THEN get(objects, x).read_map ELSE <<>>

\* C24: an object a segment S declares with discriminator 0xFFFFFFFF keeps its
\* stored descriptor and gets no ReadPair from S, also when an earlier segment
\* gave it a descriptor with no_bytes > 0, and it adds no bytes to the chunk
\* size of S: a segment with NewObjList that declares nothing else has no chunks
C24_NoRawAddsNothing ==
    [][Parsed =>
         /\ \A x \in NoRawOnly :
               /\ Descriptor(all_objects', x) = Descriptor(all_objects, x)
               /\ PairsOf(all_objects', x) = PairsOf(all_objects, x)
         /\ (has_flag(Incoming.seg.toc_mask, KTocNewObjList)
             /\ \A k \in 1..Len(Incoming.seg.objs) :
                   Incoming.seg.objs[k].path \in NoRawOnly)
            => segments'[Len(segments')].no_chunks = 0]_vars

\* C24 witness: the first segment gave a a descriptor of 2 bytes, the second
\* declared a without raw data, and a has ReadPairs in the second segment
C24_Witness ==
    /\ Len(file) = 2
    /\ Len(segments) = 2
    /\ file[1].seg.objs = <<Fresh("a", I16, 1, <<>>)>>
    /\ file[2].seg.objs = <<NoRaw("a", <<>>)>>
    /\ RenewsList(2)
    /\ segments[2].no_chunks = 2
    /\ Len(get(all_objects, "a").read_map) = 4


---------------------------------------------------------------------------
(* Files whose channels have values of different sizes *)

StrideLists ==
    {<<Fresh("a", I16, 1, <<>>)>>, <<Fresh("b", I32, 1, <<>>)>>,
     <<Fresh("a", I16, 1, <<>>), Fresh("b", I32, 1, <<>>)>>,
     <<Prev("a", <<>>)>>}

StrideSegments ==
    {seg \in {Segment(t, objs, 2 * RawBytes) : t \in {NewList, Additive},
                                               objs \in StrideLists} :
        WellLaidOut(seg)}

NextStride ==
    \/ \E seg \in StrideSegments : ReadSegment(seg)
    \/ MapSegmentsDone
    \/ Calls

SpecStride == Init /\ [][NextStride]_vars

---------------------------------------------------------------------------
(* C25 *)

\* The sum of the sizes of one value of the first n objects of the list live
RECURSIVE SamplesBefore(_, _, _)
SamplesBefore(objects, live, n) ==
    IF n = 0 THEN 0
    ELSE SamplesBefore(objects, live, n - 1) + type_size(get(objects, live[n]).last_object)

\* The ReadPairs the step appended to the plan of x
NewPairs(x) ==
    SubSeq(get(all_objects', x).read_map, Len(PairsOf(all_objects, x)) + 1,
           Len(get(all_objects', x).read_map))

\* The segment read in this step is not a first segment without NewObjList
Anchored == segments # <<>> \/ has_flag(Incoming.seg.toc_mask, KTocNewObjList)

\* C25: every ReadPair a segment S emits for an object has as stride the sum
\* of the one-value sizes of the objects live in S less the object's own, for
\* S with NewObjList or without, and computing it never goes below zero
C25_StrideIsOthersSampleSizes ==
    [][(Len(file') = Len(file) + 1 /\ Anchored) =>
         /\ pc' # "aborted"
         /\ Parsed =>
              \A n \in 1..Len(live_objects') :
                 \A p \in 1..Len(NewPairs(live_objects'[n])) :
                    NewPairs(live_objects'[n])[p].stride =
                       Some(SamplesBefore(all_objects', live_objects', Len(live_objects'))
                            - type_size(get(all_objects', live_objects'[n]).last_object))]_vars

\* C25 witness: I32 channel b is live, a segment without NewObjList adds I16
\* channel a, and the stride of the pair b gets there is 2 - 4 in 64 bits
C25_Witness ==
    /\ Len(segments) = 2
    /\ ~overflow_checks
    /\ ~RenewsList(2)
    /\ live_objects = <<"b", "a">>
    /\ Len(get(all_objects, "b").read_map) = 6
    /\ get(all_objects, "b").read_map[3].stride = Some(U64_MOD - 2)


---------------------------------------------------------------------------
(* Files with a next-segment offset that carries the walk past 2^64 *)

\* The segment reads the walk is followed for
MaxVisits == 4

\* A segment without raw data whose next-segment offset, added to HEADER_LEN and
\* to the address of a segment that starts back segments after the first,
\* gives 2^64
WrapSegment(objs, back) ==
    [toc_mask |-> NewList,
     next_seg_offset |-> U64_MOD - HEADER_LEN - back * SegPitch,
     raw_data_offset |-> MetaBytes(objs),
     objs |-> objs]

WalkSegments ==
    {Segment(NewList, objs, RawBytes) :
        objs \in {<<Fresh("a", I16, 1, <<>>)>>, <<Fresh("b", I16, 1, <<>>)>>}}
    \cup {WrapSegment(<<NoRaw("a", <<>>)>>, back) : back \in 0..(MaxSegs - 1)}

NextWalk ==
    \/ \E seg \in WalkSegments : Len(file) < MaxVisits /\ ReadSegment(seg)
    \/ MapSegmentsDone
    \/ Calls

SpecWalk == Init /\ [][NextWalk]_vars

---------------------------------------------------------------------------
(* C26 *)

\* A segment read either ends the walk, with the file or an error but not
\* abnormally, or moves it to a greater address
WalkAdvances ==
    Len(file') = Len(file) + 1 =>
        /\ pc' # "aborted"
        /\ pc' = "map_segments" => next_segment_address' > next_segment_address
        /\ Parsed => next_segment_address' = Incoming.start + HEADER_LEN
                                               + Incoming.seg.next_seg_offset

\* No address was read twice
ParsedOnce == \A j, k \in 1..Len(file) : file[j].start = file[k].start => j = k

\* C26: the walk of open visits the segments in file order, the next one at
\* start + 28 + next_seg_offset; the addresses strictly increase in 64-bit
\* arithmetic whatever the lead-ins say, so the walk ends and no segment is
\* parsed twice
C26_WalkStrictlyIncreases == [][WalkAdvances]_vars /\ []ParsedOnce

\* C26 witness: without overflow checks the walk came back to address 0 and
\* indexed the first segment a second time
C26_Witness ==
    /\ ~overflow_checks
    /\ pc = "map_segments"
    /\ Len(file) = 3
    /\ file[1].start = 0
    /\ file[3].start = 0
    /\ Len(segments) = 3
    /\ next_segment_address = SegPitch


---------------------------------------------------------------------------
(* Files with little-endian and big-endian segments *)

EndianLists ==
    {<<Fresh("a", I16, 1, <<>>)>>, <<Fresh("b", I16, 1, <<>>)>>,
     <<Fresh("a", I16, 1, <<>>), Fresh("b", I16, 1, <<>>)>>,
     <<Fresh("a", I16, RawBytes, <<>>)>>}

EndianSegments ==
    {seg \in {Segment(t, objs, RawBytes) : t \in {NewList, NewList + KTocBigEndian},
                                           objs \in EndianLists} :
        WellLaidOut(seg)}

NextEndian ==
    \/ \E seg \in EndianSegments : ReadSegment(seg)
    \/ MapSegmentsDone
    \/ Calls

SpecEndian == Init /\ [][NextEndian]_vars

---------------------------------------------------------------------------
(* C27 *)

\* The segment at place k of the file is big-endian
BigEndianAt(k) == has_flag(file[k].seg.toc_mask, KTocBigEndian)

\* load_data decoded every value with the byte order of the segment it is in
DecodedPerSegment ==
    (result.op = "load_data" /\ result.kind = "Ok") =>
        \A n \in 1..Len(result.value.data) :
            result.value.data[n].bigendian = BigEndianAt(SegmentAt(result.value.data[n].addr))

\* A segment changes the big-endian flag only of objects it gives ReadPairs
FlagFollowsBytes ==
    Parsed =>
        \A n \in 1..Len(all_objects) :
            all_objects'[n].value.bigendian # all_objects[n].value.bigendian
                => Len(all_objects'[n].value.read_map) > Len(all_objects[n].value.read_map)

\* C27: load_data decodes every ReadPair of a channel with the endianness of
\* the segment that produced it, so a channel with data from segments of both
\* byte orders loads correctly; the big-endian flag of an object is set only
\* by segments in which the object contributes raw bytes
C27_EndiannessPerSegment == []DecodedPerSegment /\ [][FlagFollowsBytes]_vars

\* C27 witness: channel a has values in a little-endian first and a
\* big-endian second segment, and load_data decoded them all as big-endian
C27_Witness ==
    /\ Len(file) = 2
    /\ ~BigEndianAt(1)
    /\ BigEndianAt(2)
    /\ result.op = "load_data"
    /\ result.path = "a"
    /\ result.kind = "Ok"
    /\ Len(result.value.data) = 4
    /\ \A n \in 1..4 : result.value.data[n].bigendian
    /\ SegmentAt(result.value.data[1].addr) = 1


---------------------------------------------------------------------------
(* timestamps.rs: TimeStamp::to_local_time on a loaded timestamp.  The u64  *)
(* fraction has U64Bits bits as everywhere, the u32 nanoseconds U32Bits     *)
(* bits, and a second has NanosPerSec nanoseconds.                          *)

U32Bits == 12
NanosPerSec == 1000

U32_MOD == 2 ^ U32Bits

\* The operator ^ of Rust on unsigned integers: bitwise exclusive or
RECURSIVE BitXor(_, _)
BitXor(a, b) ==
    IF a = 0 THEN b
    ELSE IF b = 0 THEN a
    ELSE (((a % 2) + (b % 2)) % 2) + 2 * BitXor(a \div 2, b \div 2)

\* const FRACTIONS_PER_NS: u64 = 2 ^ 64 / 10 ^ 9, the division binding tighter
\* than the exclusive or
FRACTIONS_PER_NS == BitXor(BitXor(2, 64 \div 10), 9)

\* Local.timestamp_opt(secs, nsecs): the instant secs seconds and nsecs
\* nanoseconds after 1970-01-01 UTC; LocalResult::None when nsecs is not below
\* two seconds
timestamp_opt(secs, nsecs) ==
    IF nsecs < 2 * NanosPerSec
    THEN [kind |-> "Ok", time |-> [unix_seconds |-> secs, nanos |-> nsecs]]
    ELSE [kind |-> "Err", time |-> [error |-> "MalformedTimestamp", seconds |-> secs,
                                    nano |-> nsecs]]

\* TimeStamp::to_local_time
to_local_time(ts) == timestamp_opt(ts.epoch, (ts.radix \div FRACTIONS_PER_NS) % U32_MOD)

\* The seconds from 1904-01-01 to 1970-01-01: 66 years, 17 of them leap years
LabviewToUnix == (66 * 365 + 17) * 86400

\* The timestamps converted: seconds around both epochs, fractions spread over
\* the u64 range and the greatest ones
Epochs == {0, 1, LabviewToUnix, LabviewToUnix + 1}
Radixes == {r \in 0..U64_MAX : r % 509 = 0 \/ r >= U64_MAX - 3}

InitTime ==
    /\ file_length = 0
    /\ overflow_checks \in BOOLEAN
    /\ pc = "open"
    /\ open_err = "Ok"
    /\ segments = <<>>
    /\ all_objects = <<>>
    /\ live_objects = <<>>
    /\ next_segment_address = 0
    /\ reader_pos = 0
    /\ file = <<>>
    /\ result \in {[op |-> "load_data", path |-> "t", kind |-> "Ok",
                    value |-> [type |-> "TimeStamp",
                               data |-> <<[epoch |-> e, radix |-> r]>>]] :
                      e \in Epochs, r \in Radixes}

\* A caller converts the timestamp load_data returned
ToLocalTime ==
    /\ result.op = "load_data"
    /\ result.kind = "Ok"
    /\ result.value.type = "TimeStamp"
    /\ result' = [op |-> "to_local_time", path |-> result.path,
                  kind |-> to_local_time(result.value.data[1]).kind,
                  value |-> [timestamp |-> result.value.data[1],
                             time |-> to_local_time(result.value.data[1]).time]]
    /\ UNCHANGED <<file_length, overflow_checks, pc, open_err, segments, all_objects,
                   live_objects, next_segment_address, reader_pos, file>>

NextTime == ToLocalTime

SpecTime == InitTime /\ [][NextTime]_vars

---------------------------------------------------------------------------
(* C28 *)

\* floor(fraction * nanoseconds per second / 2^64)
RefNanos(radix) == (radix * NanosPerSec) \div U64_MOD

\* C28: the conversion counts the seconds from 1904-01-01 UTC and takes the
\* nanoseconds as floor(fraction * 10^9 / 2^64), which is below a second and
\* fits in the u32 for every fraction
C28_LabviewEpochAndNanos ==
    result.op = "to_local_time" =>
        /\ result.kind = "Ok"
        /\ result.value.time.unix_seconds = result.value.timestamp.epoch - LabviewToUnix
        /\ result.value.time.nanos = RefNanos(result.value.timestamp.radix)
        /\ result.value.time.nanos < NanosPerSec

\* C28 witness: a timestamp of half a second past 1970-01-01 in LabVIEW terms
\* was converted to an instant 66 years later with more nanoseconds than a
\* second has
C28_Witness ==
    /\ result.op = "to_local_time"
    /\ result.kind = "Ok"
    /\ result.value.timestamp.epoch = LabviewToUnix
    /\ RefNanos(result.value.timestamp.radix) < NanosPerSec \div 2
    /\ result.value.time.unix_seconds = LabviewToUnix
    /\ result.value.time.nanos > NanosPerSec


---------------------------------------------------------------------------
(* C29 *)

\* C29: after every parsed segment, and in every other state of the index,
\* no path is in live_objects twice and every path in live_objects is a key
\* of all_objects, so update_indexes finds the object of every live path
C29_LiveObjectsDistinctAndIndexed ==
    /\ \A i, j \in 1..Len(live_objects) : live_objects[i] = live_objects[j] => i = j
    /\ \A i \in 1..Len(live_objects) : contains_key(all_objects, live_objects[i])

\* C29 witness: a segment without NewObjList declared a new channel b and the
\* live channel a again, and a is live once
C29_Witness ==
    /\ LastParsed
    /\ Len(segments) = 2
    /\ ~RenewsList(2)
    /\ PathsOf(1) = {"a"}
    /\ Len(file[2].seg.objs) = 2
    /\ file[2].seg.objs[1].path = "b"
    /\ file[2].seg.objs[2].path = "a"
    /\ live_objects = <<"a", "b">>


---------------------------------------------------------------------------
(* C30 *)

\* What load_data(path) returns on the index when the reader is at position 0
FromStart(path) ==
    IF ~contains_key(all_objects, path)
    THEN [kind |-> "Err", value |-> "ChannelNotFound"]
    ELSE [kind |-> read_data_vector(get(all_objects, path),
                                    get(all_objects, path).bigendian, 0).kind,
          value |-> read_data_vector(get(all_objects, path),
                                     get(all_objects, path).bigendian, 0).value]

\* The result of a load_data is the one a reader at position 0 gives
LoadedFromStart ==
    result.op = "load_data" =>
        /\ result.kind = FromStart(result.path).kind
        /\ result.value = FromStart(result.path).value

\* A load_data of the path loaded last returns the same again
LoadedAgain ==
    (result.op = "load_data" /\ result'.op = "load_data" /\ result'.path = result.path)
        => (result'.kind = result.kind /\ result'.value = result.value)

\* C30: the result of load_data(p) does not depend on the load_data calls
\* made before it, on p or on other paths, successful or failed: whatever
\* position they left the reader at, the result is the one read from the
\* absolute addresses of the ReadPairs, and a repeated call returns it again
C30_LoadDataRepeatable == []LoadedFromStart /\ [][LoadedAgain]_vars

\* C30 witness: load_data returned the four values channel a has in two
\* segments and left the reader behind the last one, where the next call
\* starts from
C30_Witness ==
    /\ pc = "open"
    /\ Len(segments) = 2
    /\ result.op = "load_data"
    /\ result.path = "a"
    /\ result.kind = "Ok"
    /\ Len(result.value.data) = 4
    /\ reader_pos = result.value.data[4].addr + result.value.data[4].width
    /\ reader_pos = file_length

====
